---- MODULE Spec2Model ----
(***************************************************************************)
(* The wave propagation worker of fluidmotion (src/src/waveWorker.js): a   *)
(* tile-partitioned, double-buffered height field driven by the messages   *)
(* 'init', 'reset', 'pointer' and 'ready'.                                 *)
(*                                                                         *)
(* Numbers.  A depth d of the program is the integer d * Unit.  Every      *)
(* configuration below uses depth bounds and damping factors that are      *)
(* dyadic, so that each value of the first MaxSweeps sweeps is a multiple  *)
(* of 1/Unit and the Float32Array stores it without rounding: the integer  *)
(* arithmetic below is the program's arithmetic.  The one value that is no *)
(* number is NaN (what arithmetic on an undefined array element yields).   *)
(* RoundedSpec, further down, follows one tile for as many sweeps as it    *)
(* takes on numbers of full width, with the rounding of the doubles and of *)
(* the Float32Array.                                                       *)
(***************************************************************************)
EXTENDS Integers, Sequences, FiniteSets, TLC

\* Bounds of the model.
MaxSweeps == 2
MaxInits == 1
MaxPending == 2
MaxInbox == 2

\* One sweep halves the neighbour total and multiplies by a damping factor
\* whose denominator is at most 4; the colour scale halves once more.
Unit == 2 * (8 ^ (MaxSweeps + 1))

NaN == 99999999

(***************************************************************************)
(* Arithmetic of the program on depths (IEEE: NaN is contagious).          *)
(***************************************************************************)
IsNaN(x) == x = NaN

FAdd(a, b) == IF IsNaN(a) \/ IsNaN(b) THEN NaN ELSE a + b

FSub(a, b) == IF IsNaN(a) \/ IsNaN(b) THEN NaN ELSE a - b

\* x / 2.0
FHalf(a) == IF IsNaN(a) THEN NaN ELSE a \div 2

\* Math.max and Math.min return NaN when an argument is NaN.
MathMax(a, b) == IF IsNaN(a) \/ IsNaN(b) THEN NaN ELSE IF a >= b THEN a ELSE b

MathMin(a, b) == IF IsNaN(a) \/ IsNaN(b) THEN NaN ELSE IF a <= b THEN a ELSE b

\* x * factor, the factor being the fraction num/den.
FMul(a, factor) == IF IsNaN(a) THEN NaN ELSE (a * factor.num) \div factor.den

\* x / range, as a fraction of Unit; a zero range gives no number.
FDiv(a, range) == IF IsNaN(a) \/ IsNaN(range) \/ range = 0 THEN NaN ELSE (a * Unit) \div range

(***************************************************************************)
(* fns.getZ / fns.setZ on a Float32Array, a sequence indexed from 1.       *)
(* Reading outside the array gives undefined, which every use turns into   *)
(* NaN; writing outside the array is ignored.                              *)
(***************************************************************************)
getZ(positions, vertexIndex) ==
  LET k == (vertexIndex * 3) + 2
  IN  IF k >= 0 /\ k < Len(positions) THEN positions[k + 1] ELSE NaN

\* A store that would go to the y component of the vertex.
setZOfY(positions, vertexIndex, value) ==
  LET k == (vertexIndex * 3) + 1
  IN  IF k >= 0 /\ k < Len(positions)
      THEN [positions EXCEPT ![k + 1] = value]
      ELSE positions

setZ(positions, vertexIndex, value) ==
  LET k == (vertexIndex * 3) + 2
  IN  IF k >= 0 /\ k < Len(positions)
      THEN [positions EXCEPT ![k + 1] = value]
      ELSE positions

(***************************************************************************)
(* The messages the worker receives (src/src/workerInterface.ts).          *)
(***************************************************************************)
\* The vertex positions of a plane of rows x columns vertices, row-major,
\* three numbers (x, y, z) for each vertex, every vertex at depth z.
PlaneTemplate(rows, columns, z) ==
  [k \in 1..(3 * rows * columns) |->
     LET vertex == (k - 1) \div 3
     IN  CASE (k - 1) % 3 = 0 -> (vertex % columns) * Unit
           [] (k - 1) % 3 = 1 -> 0 - ((vertex \div columns) * Unit)
           [] OTHER -> z]

initMessageToWorker(subRows, subColumns, rows, columns, minDepth, maxDepth, damping, template) ==
  [type |-> "init",
   subdivisionRows |-> subRows,
   subdivisionColumns |-> subColumns,
   columnsPerSubdivision |-> columns,
   rowsPerSubdivision |-> rows,
   vertexPositionTemplate |-> template,
   minVertexDepth |-> minDepth,
   maxVertexDepth |-> maxDepth,
   waveDampingFactor |-> damping]

pointerMessageToWorker(rowIndex, columnIndex, vertexIndex) ==
  [type |-> "pointer", rowIndex |-> rowIndex, columnIndex |-> columnIndex, vertexIndex |-> vertexIndex]

Half == [num |-> 1, den |-> 2]

ThreeQuarters == [num |-> 3, den |-> 4]

\* 2 x 2 tiles of 2 x 2 vertices, depths in [-1, 1], the plane at rest.
SquareTiles ==
  initMessageToWorker(2, 2, 2, 2, 0 - Unit, Unit, Half, PlaneTemplate(2, 2, 0))

\* 1 x 2 tiles of 2 rows x 3 columns of vertices.
WideTiles ==
  initMessageToWorker(1, 2, 2, 3, 0 - Unit, Unit, Half, PlaneTemplate(2, 3, 0))

\* One tile of 2 x 2 vertices with depths in [1, 3], the template at depth 3.
PositiveDepths ==
  initMessageToWorker(1, 1, 2, 2, Unit, 3 * Unit, Half, PlaneTemplate(2, 2, 3 * Unit))

\* One tile of 4 x 4 vertices, depths in [-1, 1], the plane at rest.
OneTile ==
  initMessageToWorker(1, 1, 4, 4, 0 - Unit, Unit, ThreeQuarters, PlaneTemplate(4, 4, 0))

\* 2 x 1 tiles of 4 x 4 vertices, depths in [-1, 1], the plane at rest.
StackedTiles ==
  initMessageToWorker(2, 1, 4, 4, 0 - Unit, Unit, Half, PlaneTemplate(4, 4, 0))

InitMessages == {SquareTiles, WideTiles, PositiveDepths, OneTile, StackedTiles}

\* One tile declared as 2 x 2 vertices, with the template of a 1 x 2 plane.
ShortTemplate ==
  initMessageToWorker(1, 1, 2, 2, 0 - Unit, Unit, Half, PlaneTemplate(1, 2, 0))

\* One tile declared as 2 x 2 vertices, with the template of a 2 x 3 plane.
LongTemplate ==
  initMessageToWorker(1, 1, 2, 2, 0 - Unit, Unit, Half, PlaneTemplate(2, 3, 0))

MismatchedInitMessages == {ShortTemplate, LongTemplate}

\* Messages of a type the switch of onmessage has no case for.
UnrecognizedMessages == {[type |-> "disturb"], [type |-> "result"]}

PointerMessages ==
  {pointerMessageToWorker(0, 0, 1), pointerMessageToWorker(0, 0, 5), pointerMessageToWorker(1, 0, 2)}

(***************************************************************************)
(* The state of the worker.                                                *)
(*   state      the module's `state` object; sourcePositions and           *)
(*              resultPositions map <<row, column>> to a buffer of heap    *)
(*   heap       the Float32Arrays the state refers to, by identity         *)
(*   nextId     the identity the next allocated array gets                 *)
(*   pc         where the worker is: "idle" between messages, or inside    *)
(*              fns.handleReady ("propagate", "build", "post")             *)
(*   subRowIdx, subColIdx   the subdivision the loops of handleReady are   *)
(*              at; the loop over its vertices is one step                 *)
(*   message    the result message under construction                      *)
(*   posted     the message last handed to postMessage                     *)
(*   postCount  the number of messages handed to postMessage               *)
(* and what the properties below look at:                                  *)
(*   received   the pointer messages received since the last 'init' or     *)
(*              'ready'                                                    *)
(*   resetSeen  whether a 'reset' was received since then                  *)
(*   applied    the pointer events the drain of this 'ready' wrote         *)
(*   before     the buffers of each tile when this 'ready' arrived         *)
(*   drained    the buffers of each tile when its drain finished           *)
(*   computed   the vertices the propagation loop has gone through         *)
(*   reads      the neighbour reads made for the subdivision computed      *)
(*              last, each with the vertex it was made for and the value   *)
(*              it returned                                                *)
(*   frames     the number of 'ready' messages handled                     *)
(*   inits      the number of 'init' messages handled                      *)
(*   handled    the message handled last: its type and, for a 'ready',     *)
(*              whether the handler ended by an uncaught TypeError         *)
(*   console    the message types console.warn was called for              *)
(*   inbox      the messages posted to the worker that wait for the        *)
(*              handler of an earlier one to return                        *)
(*   consumer   the side of WaterPlane: its refs (lastWorkerResult is null *)
(*              or the number of a result; times are in ticks), the        *)
(*              elapsed time of the clock of the scene, and for the        *)
(*              properties: how many 'ready' messages it has sent, results *)
(*              it has received and results it has copied; `from`, what    *)
(*              posted each message of inbox ("effect", "touch", "rain",   *)
(*              "buffers"); `touchedAt`, the elapsed time at which the     *)
(*              last message for the pointer was posted, -1 for none;      *)
(*              `released`, whether the last pointer event that cleared or *)
(*              set the pointed vertex cleared it                          *)
(*   transferred   the buffers of the arrays posted so far (the transfer    *)
(*              list of every postMessage)                                 *)
(*   store      the store of the interface (motionState.ts): the rain      *)
(*              stage, its frequency in ticks, and the time of the last    *)
(*              reset the user asked for, 0 at the start                   *)
(*   rolesBefore   which buffer was the source and which the result buffer  *)
(*              of every subdivision when the 'ready' under way arrived    *)
(***************************************************************************)
VARIABLES state, heap, nextId, pc, subRowIdx, subColIdx, message, posted,
          postCount, received, resetSeen, applied, before, drained, computed, reads,
          frames, inits, handled, console, inbox, consumer, transferred, store,
          rolesBefore

vars == <<state, heap, nextId, pc, subRowIdx, subColIdx, message, posted,
          postCount, received, resetSeen, applied, before, drained, computed, reads,
          frames, inits, handled, console, inbox, consumer, transferred, store,
          rolesBefore>>

loopVars == <<subRowIdx, subColIdx>>

\* lastWorkerResult.current = null
null == <<>>

NoBuffers == [p \in {} |-> 0]

NoSnapshot == [source |-> NoBuffers, result |-> NoBuffers]

NoMessage == [type |-> "none", vertexPositions |-> NoBuffers, vertexColors |-> NoBuffers]

Handled(type, threw) == [type |-> type, threw |-> threw]

Tiles(rows, columns) == (0..(rows - 1)) \X (0..(columns - 1))

\* The refs of WaterPlane as the component creates them, the clock of the
\* scene at its start, and nothing posted yet.
WaterPlaneRefs ==
  [lastWorkerResult |-> null,
   lastRenderTime |-> 0,
   lastRainTime |-> 0,
   rainFrequencySeconds |-> 0,
   pointerSubdivisionRowIndex |-> -1,
   pointerSubdivisionColumnIndex |-> -1,
   pointerVertexIndex |-> -1,
   pointerLastFiredTime |-> 0,
   elapsedTime |-> 0,
   sent |-> 0,
   received |-> 0,
   consumed |-> 0,
   from |-> <<>>,
   touchedAt |-> -1,
   released |-> TRUE]

\* The store as create() builds it.
useStore == [rainFrequencySeconds |-> 0, rainFrequencyStageIndex |-> 0, lastResetTime |-> 0]

\* The state object as the module creates it.
Init ==
  /\ state = [subdivisionRows |-> 0,
              subdivisionColumns |-> 0,
              columnsPerSubdivision |-> 0,
              rowsPerSubdivision |-> 0,
              minVertexDepth |-> 0,
              maxVertexDepth |-> 0,
              baseVertexDepth |-> 0,
              vertexDepthRange |-> 0,
              waveDampingFactor |-> [num |-> 99, den |-> 100],
              sourcePositions |-> NoBuffers,
              resultPositions |-> NoBuffers,
              resetRequested |-> FALSE,
              pendingPointerEvents |-> <<>>]
  /\ heap = NoBuffers
  /\ nextId = 1
  /\ pc = "idle"
  /\ subRowIdx = 0
  /\ subColIdx = 0
  /\ message = NoMessage
  /\ posted = NoMessage
  /\ postCount = 0
  /\ received = {}
  /\ resetSeen = FALSE
  /\ applied = <<>>
  /\ before = NoSnapshot
  /\ drained = NoSnapshot
  /\ computed = {}
  /\ reads = {}
  /\ frames = 0
  /\ inits = 0
  /\ handled = Handled("none", FALSE)
  /\ console = {}
  /\ inbox = <<>>
  /\ consumer = WaterPlaneRefs
  /\ transferred = {}
  /\ store = useStore
  /\ rolesBefore = NoSnapshot

(***************************************************************************)
(* fns.handleInit                                                          *)
(***************************************************************************)
\* The rows of the old array of arrays that the loop does not replace stay.
KeptTiles(positions, data) == {p \in DOMAIN positions : p[1] >= data.subdivisionRows}

NewTiles(data) == Tiles(data.subdivisionRows, data.subdivisionColumns)

TileNumber(p, data) == (p[1] * data.subdivisionColumns) + p[2]

\* The array the 'init' message carries: new Float32Array of WaterPlane.
TemplateBuffer == 0

\* An allocation that would keep the template itself for every subdivision.
AllocatedPositionsOfTemplate(positions, data, first) ==
  [p \in KeptTiles(positions, data) \cup NewTiles(data) |->
     IF p \in NewTiles(data) THEN TemplateBuffer ELSE positions[p]]

AllocatedPositions(positions, data, first) ==
  [p \in KeptTiles(positions, data) \cup NewTiles(data) |->
     IF p \in NewTiles(data) THEN first + (2 * TileNumber(p, data)) ELSE positions[p]]

\* An 'init' that would keep the pending pointer events.
handleInitKeepingEvents(data) ==
  LET source == AllocatedPositions(state.sourcePositions, data, nextId)
      result == AllocatedPositions(state.resultPositions, data, nextId + 1)
      fresh == {source[p] : p \in NewTiles(data)} \cup {result[p] : p \in NewTiles(data)}
      live == {source[p] : p \in DOMAIN source} \cup {result[p] : p \in DOMAIN result}
  IN  /\ state' = [state EXCEPT
                     !.subdivisionRows = data.subdivisionRows,
                     !.subdivisionColumns = data.subdivisionColumns,
                     !.columnsPerSubdivision = data.columnsPerSubdivision,
                     !.rowsPerSubdivision = data.rowsPerSubdivision,
                     !.minVertexDepth = data.minVertexDepth,
                     !.maxVertexDepth = data.maxVertexDepth,
                     !.baseVertexDepth =
                        data.minVertexDepth + ((data.maxVertexDepth - data.minVertexDepth) \div 2),
                     !.vertexDepthRange = data.maxVertexDepth - data.minVertexDepth,
                     !.waveDampingFactor = data.waveDampingFactor,
                     !.resetRequested = FALSE,
                     !.sourcePositions = source,
                     !.resultPositions = result]
      /\ heap' = [id \in live |-> IF id \in fresh THEN data.vertexPositionTemplate ELSE heap[id]]
      /\ nextId' = nextId + (2 * Cardinality(NewTiles(data)))

handleInit(data) ==
  LET source == AllocatedPositions(state.sourcePositions, data, nextId)
      result == AllocatedPositions(state.resultPositions, data, nextId + 1)
      fresh == {source[p] : p \in NewTiles(data)} \cup {result[p] : p \in NewTiles(data)}
      live == {source[p] : p \in DOMAIN source} \cup {result[p] : p \in DOMAIN result}
  IN  /\ state' = [state EXCEPT
                     !.subdivisionRows = data.subdivisionRows,
                     !.subdivisionColumns = data.subdivisionColumns,
                     !.columnsPerSubdivision = data.columnsPerSubdivision,
                     !.rowsPerSubdivision = data.rowsPerSubdivision,
                     !.minVertexDepth = data.minVertexDepth,
                     !.maxVertexDepth = data.maxVertexDepth,
                     !.baseVertexDepth =
                        data.minVertexDepth + ((data.maxVertexDepth - data.minVertexDepth) \div 2),
                     !.vertexDepthRange = data.maxVertexDepth - data.minVertexDepth,
                     !.waveDampingFactor = data.waveDampingFactor,
                     !.resetRequested = FALSE,
                     !.sourcePositions = source,
                     !.resultPositions = result,
                     !.pendingPointerEvents = <<>>]
      /\ heap' = [id \in live |-> IF id \in fresh THEN data.vertexPositionTemplate ELSE heap[id]]
      /\ nextId' = nextId + (2 * Cardinality(NewTiles(data)))

(***************************************************************************)
(* fns.handleReset                                                         *)
(***************************************************************************)
handleReset ==
  state' = [state EXCEPT !.resetRequested = TRUE, !.pendingPointerEvents = <<>>]

(***************************************************************************)
(* fns.handlePointer                                                       *)
(***************************************************************************)
RECURSIVE Decimal(_)
\* The characters a number becomes in a template literal.
Decimal(n) ==
  IF n < 0 THEN <<"-">> \o Decimal(0 - n)
  ELSE IF n < 10 THEN <<(<<"0", "1", "2", "3", "4", "5", "6", "7", "8", "9">>)[n + 1]>>
  ELSE Decimal(n \div 10) \o Decimal(n % 10)

\* A key that would name the subdivision only.
PointerKeyOfSubdivision(data) ==
  Decimal(data.rowIndex) \o <<"_">> \o Decimal(data.columnIndex)

\* The key `${rowIndex}_${columnIndex}_${vertexIndex}`, as its characters.
PointerKey(data) ==
  Decimal(data.rowIndex) \o <<"_">> \o Decimal(data.columnIndex) \o <<"_">>
    \o Decimal(data.vertexIndex)

PointerEvent(data) ==
  [rowIndex |-> data.rowIndex, columnIndex |-> data.columnIndex, vertexIndex |-> data.vertexIndex]

\* Map.set: an existing key keeps its place, a new key goes last.
MapSet(events, data) ==
  IF \E i \in 1..Len(events) : PointerKey(events[i]) = PointerKey(data)
  THEN [i \in 1..Len(events) |->
          IF PointerKey(events[i]) = PointerKey(data) THEN PointerEvent(data) ELSE events[i]]
  ELSE Append(events, PointerEvent(data))

\* A handler that would take a pointer event as the end of a reset.
handlePointerCancellingReset(data) ==
  state' = [state EXCEPT !.resetRequested = FALSE, !.pendingPointerEvents = MapSet(@, data)]

\* A handler that would keep the events that arrive while a reset is requested.
handlePointerWhileResetting(data) ==
  state' = [state EXCEPT !.pendingPointerEvents = MapSet(@, data)]

handlePointer(data) ==
  IF state.resetRequested
  THEN state' = state
  ELSE state' = [state EXCEPT !.pendingPointerEvents = MapSet(@, data)]

(***************************************************************************)
(* fns.handleReady, first part: the pending pointer events are applied.    *)
(***************************************************************************)
TileOf(pointerEvent) == <<pointerEvent.rowIndex, pointerEvent.columnIndex>>

\* Reading state.sourcePositions[rowIndex][columnIndex] of a row that does
\* not exist, or writing through the undefined it gives for a column that
\* does not exist, throws a TypeError.
Throws(pointerEvent) == TileOf(pointerEvent) \notin DOMAIN state.sourcePositions

ApplyPointerEvent(h, pointerEvent) ==
  LET sourcePositions == state.sourcePositions[TileOf(pointerEvent)]
      resultPositions == state.resultPositions[TileOf(pointerEvent)]
      h1 == [h EXCEPT ![sourcePositions] = setZ(@, pointerEvent.vertexIndex, state.minVertexDepth)]
  IN  [h1 EXCEPT ![resultPositions] = setZ(@, pointerEvent.vertexIndex, state.maxVertexDepth)]

RECURSIVE DrainEvents(_, _, _)
\* The for-of loop over the map, in insertion order.
DrainEvents(events, h, done) ==
  IF events = <<>>
  THEN [heap |-> h, applied |-> done, threw |-> FALSE]
  ELSE IF Throws(Head(events))
       THEN [heap |-> h, applied |-> done, threw |-> TRUE]
       ELSE DrainEvents(Tail(events), ApplyPointerEvent(h, Head(events)), Append(done, Head(events)))

Drain ==
  IF state.resetRequested = FALSE
  THEN DrainEvents(state.pendingPointerEvents, heap, <<>>)
  ELSE [heap |-> heap, applied |-> <<>>, threw |-> FALSE]

\* The model follows the worker up to its MaxSweeps-th 'ready'.
MoreMessages == frames < MaxSweeps

vertexCount == state.rowsPerSubdivision * state.columnsPerSubdivision

\* Where handleReady goes on after the drain: the loops over no tile, or
\* over tiles of no vertex, have no iteration.
AfterDrain ==
  IF state.subdivisionRows <= 0 \/ state.subdivisionColumns <= 0 THEN "post"
  ELSE IF vertexCount <= 0 THEN "build"
  ELSE "propagate"

\* The subdivisions of the configured grid, and what their buffers hold.
Subdivisions == Tiles(state.subdivisionRows, state.subdivisionColumns)

Snapshot(h) ==
  [source |-> [p \in Subdivisions |-> h[state.sourcePositions[p]]],
   result |-> [p \in Subdivisions |-> h[state.resultPositions[p]]]]

\* The buffer that is the source and the one that is the result of every
\* subdivision.
Roles ==
  [source |-> [p \in Subdivisions |-> state.sourcePositions[p]],
   result |-> [p \in Subdivisions |-> state.resultPositions[p]]]

DrainStep ==
  /\ MoreMessages
  /\ frames' = frames + 1
  /\ LET d == Drain
     IN  /\ heap' = d.heap
         /\ IF d.threw
            THEN /\ pc' = "idle"
                 /\ state' = state
                 /\ applied' = d.applied
                 /\ before' = NoSnapshot
                 /\ drained' = NoSnapshot
                 /\ handled' = Handled("ready", TRUE)
                 /\ rolesBefore' = NoSnapshot
                 /\ received' = {}
                 /\ resetSeen' = FALSE
            ELSE /\ pc' = AfterDrain
                 /\ state' = [state EXCEPT !.pendingPointerEvents = <<>>]
                 /\ applied' = d.applied
                 /\ before' = Snapshot(heap)
                 /\ drained' = Snapshot(d.heap)
                 /\ rolesBefore' = Roles
                 /\ UNCHANGED <<handled, received, resetSeen>>
  /\ subRowIdx' = 0
  /\ subColIdx' = 0
  /\ computed' = {}
  /\ reads' = {}
  /\ message' = NoMessage
  /\ UNCHANGED <<store, transferred, consumer, console, nextId, posted, postCount, inits>>

\* A 'ready' is taken when no handler is running.
ReadyDrain ==
  /\ pc = "idle"
  /\ DrainStep
  /\ UNCHANGED inbox

(***************************************************************************)
(* fns.handleReady, second part: the propagation loop over the vertices of *)
(* the subdivision (subRowIdx, subColIdx).                                 *)
(***************************************************************************)
relativeColumnIdx(vertex) == vertex % state.rowsPerSubdivision

relativeRowIdx(vertex) == vertex \div state.columnsPerSubdivision

Cell(tile, index) == [tile |-> tile, index |-> index]

Read(direction, row, column, index) ==
  <<[direction |-> direction, tile |-> <<row, column>>, index |-> index]>>

ReadAbove(row, column, vertex) ==
  IF relativeRowIdx(vertex) > 0
  THEN Read("above", row, column, vertex - state.columnsPerSubdivision)
  ELSE IF row > 0
       THEN Read("above", row - 1, column,
                 vertex + (state.columnsPerSubdivision * (state.rowsPerSubdivision - 1)))
       ELSE <<>>

ReadBelow(row, column, vertex) ==
  IF relativeRowIdx(vertex) < state.rowsPerSubdivision - 1
  THEN Read("below", row, column, vertex + state.columnsPerSubdivision)
  ELSE IF row < state.subdivisionRows - 1
       THEN Read("below", row + 1, column, vertex % state.columnsPerSubdivision)
       ELSE <<>>

ReadLeft(row, column, vertex) ==
  IF relativeColumnIdx(vertex) > 0
  THEN Read("left", row, column, vertex - 1)
  ELSE IF column > 0
       THEN Read("left", row, column - 1, vertex + (state.columnsPerSubdivision - 1))
       ELSE <<>>

ReadRight(row, column, vertex) ==
  IF relativeColumnIdx(vertex) < state.columnsPerSubdivision - 1
  THEN Read("right", row, column, vertex + 1)
  ELSE IF column < state.subdivisionColumns - 1
       THEN Read("right", row, column + 1, vertex - (state.columnsPerSubdivision - 1))
       ELSE <<>>

\* The neighbour reads of one vertex, in the order the code makes them.
NeighbourReads(row, column, vertex) ==
  ReadAbove(row, column, vertex) \o ReadBelow(row, column, vertex)
    \o ReadLeft(row, column, vertex) \o ReadRight(row, column, vertex)

\* The slip of reading a neighbour from the buffer the sweep writes.
ReadValueFromResult(h, read) == getZ(h[state.resultPositions[read.tile]], read.index)

\* What a read returns: getZ on the source buffer of the tile it names.
ReadValue(h, read) == getZ(h[state.sourcePositions[read.tile]], read.index)

RECURSIVE adjacentTotal(_, _)
adjacentTotal(h, toRead) ==
  IF toRead = <<>>
  THEN 0
  ELSE FAdd(adjacentTotal(h, SubSeq(toRead, 1, Len(toRead) - 1)), ReadValue(h, toRead[Len(toRead)]))

\* A value that would be damped by the factor the module starts with.
newZValueOfDefault(total, current) ==
  FMul(MathMin(state.maxVertexDepth, MathMax(state.minVertexDepth, FSub(FHalf(total), current))),
       [num |-> 99, den |-> 100])

newZValue(total, current) ==
  FMul(MathMin(state.maxVertexDepth, MathMax(state.minVertexDepth, FSub(FHalf(total), current))),
       state.waveDampingFactor)

\* A reset branch that would bring only the source buffer back to the base.
PropagateVertexSourceOnly(h, row, column, vertex) ==
  LET sourcePositions == state.sourcePositions[<<row, column>>]
      resultPositions == state.resultPositions[<<row, column>>]
  IN  IF state.resetRequested
      THEN [h EXCEPT ![sourcePositions] = setZ(@, vertex, state.baseVertexDepth)]
      ELSE [h EXCEPT ![resultPositions] =
              setZ(@, vertex,
                   newZValue(adjacentTotal(h, NeighbourReads(row, column, vertex)),
                             getZ(h[resultPositions], vertex)))]

PropagateVertex(h, row, column, vertex) ==
  LET sourcePositions == state.sourcePositions[<<row, column>>]
      resultPositions == state.resultPositions[<<row, column>>]
  IN  IF state.resetRequested
      THEN LET h1 == [h EXCEPT ![sourcePositions] = setZ(@, vertex, state.baseVertexDepth)]
           IN  [h1 EXCEPT ![resultPositions] = setZ(@, vertex, state.baseVertexDepth)]
      ELSE [h EXCEPT ![resultPositions] =
              setZ(@, vertex,
                   newZValue(adjacentTotal(h, NeighbourReads(row, column, vertex)),
                             getZ(h[resultPositions], vertex)))]

LastColumn == subColIdx + 1 >= state.subdivisionColumns

LastRow == subRowIdx + 1 >= state.subdivisionRows

\* The subdivision loops step to the next subdivision, or end.
NextSubdivision(after) ==
  /\ subColIdx' = IF LastColumn THEN 0 ELSE subColIdx + 1
  /\ subRowIdx' = IF ~LastColumn THEN subRowIdx ELSE IF LastRow THEN 0 ELSE subRowIdx + 1
  /\ pc' = IF LastColumn /\ LastRow THEN after ELSE pc

\* The reads made for one vertex, each with the value getZ returned.
LoggedReads(h, row, column, vertex) ==
  IF state.resetRequested
  THEN {}
  ELSE LET toRead == NeighbourReads(row, column, vertex)
       IN  {[by |-> Cell(<<row, column>>, vertex), direction |-> toRead[i].direction,
             tile |-> toRead[i].tile, index |-> toRead[i].index,
             value |-> ReadValue(h, toRead[i])] : i \in 1..Len(toRead)}

RECURSIVE PropagateVertices(_, _, _, _, _)
\* for (let vertexIdx = 0; vertexIdx < vertexCount; vertexIdx++)
PropagateVertices(h, log, row, column, vertex) ==
  IF vertex >= vertexCount
  THEN [heap |-> h, reads |-> log]
  ELSE PropagateVertices(PropagateVertex(h, row, column, vertex),
                         log \cup LoggedReads(h, row, column, vertex),
                         row, column, vertex + 1)

ReadyPropagate ==
  /\ pc = "propagate"
  /\ LET swept == PropagateVertices(heap, {}, subRowIdx, subColIdx, 0)
     IN  /\ heap' = swept.heap
         /\ reads' = swept.reads
  /\ computed' = computed \cup
                   {Cell(<<subRowIdx, subColIdx>>, vertex) : vertex \in 0..(vertexCount - 1)}
  /\ NextSubdivision("build")
  /\ UNCHANGED <<rolesBefore, store, transferred, consumer, console, inbox, state, nextId, message, posted, postCount, received, resetSeen, applied,
                 before, drained, frames, inits, handled>>

(***************************************************************************)
(* fns.handleReady, third part: one iteration of the loop that builds the  *)
(* message and swaps the buffers of the subdivision (subRowIdx, subColIdx).*)
(***************************************************************************)
\* A scale that would divide by the maximum depth, not by the range.
getScaledColorOfMaximum(positions, vertexIndex) ==
  FDiv(FSub(getZ(positions, vertexIndex), state.minVertexDepth), state.maxVertexDepth)

getScaledColor(positions, vertexIndex) ==
  FDiv(FSub(getZ(positions, vertexIndex), state.minVertexDepth), state.vertexDepthRange)

\* Colours that would be taken from the source buffer, the frame before.
colorArrayOfSource(positionArray) ==
  [k \in 1..(vertexCount * 3) |->
     IF (k - 1) % 3 = 2
     THEN Unit
     ELSE getScaledColor(heap[state.sourcePositions[<<subRowIdx, subColIdx>>]], (k - 1) \div 3)]

\* new Float32Array(vertexCount * 3), then the loop that fills it.
colorArray(positionArray) ==
  [k \in 1..(vertexCount * 3) |->
     IF (k - 1) % 3 = 2 THEN Unit ELSE getScaledColor(positionArray, (k - 1) \div 3)]

\* An array of the message: a new Float32Array, with its identity.
Transferable(id, array) == [buffer |-> id, array |-> array]

\* A message that would carry the result buffer itself, not a copy of it.
BuildMessageOfResultBuffer(tile) ==
  LET positionArray == heap[state.resultPositions[tile]]
  IN  [type |-> "result",
       vertexPositions |-> (tile :> Transferable(state.resultPositions[tile], positionArray))
                             @@ message.vertexPositions,
       vertexColors |-> (tile :> Transferable(nextId + 1, colorArray(positionArray)))
                          @@ message.vertexColors]

BuildMessage(tile) ==
  LET positionArray == heap[state.resultPositions[tile]]
  IN  [type |-> "result",
       vertexPositions |-> (tile :> Transferable(nextId, positionArray)) @@ message.vertexPositions,
       vertexColors |-> (tile :> Transferable(nextId + 1, colorArray(positionArray))) @@ message.vertexColors]

\* A swap that would forget the last assignment.
SwapPositionsHalfDone(tile) ==
  [state EXCEPT !.resultPositions[tile] = state.sourcePositions[tile]]

SwapPositions(tile) ==
  [state EXCEPT !.resultPositions[tile] = state.sourcePositions[tile],
                !.sourcePositions[tile] = state.resultPositions[tile]]

ReadyBuild ==
  /\ pc = "build"
  /\ message' = BuildMessage(<<subRowIdx, subColIdx>>)
  /\ nextId' = nextId + 2
  /\ state' = SwapPositions(<<subRowIdx, subColIdx>>)
  /\ NextSubdivision("post")
  /\ UNCHANGED <<rolesBefore, store, transferred, consumer, console, inbox, heap, posted, postCount, received, resetSeen, applied, before,
                 drained, computed, reads, frames, inits, handled>>

(***************************************************************************)
(* fns.handleReady, last part: the reset is over, the message is posted.   *)
(***************************************************************************)
\* transferObjects: the buffers of the position and colour arrays of a
\* message.
TransferObjects(msg) ==
  {msg.vertexPositions[tile].buffer : tile \in DOMAIN msg.vertexPositions}
    \cup {msg.vertexColors[tile].buffer : tile \in DOMAIN msg.vertexColors}

\* A post that would leave the reset requested.
ReadyPostKeepingReset ==
  /\ pc = "post"
  /\ state' = state
  /\ posted' = [message EXCEPT !.type = "result"]
  /\ postCount' = postCount + 1
  /\ message' = NoMessage
  /\ pc' = "idle"
  /\ handled' = Handled("ready", FALSE)
  /\ received' = {}
  /\ resetSeen' = FALSE
  /\ applied' = <<>>
  /\ before' = NoSnapshot
  /\ drained' = NoSnapshot
  /\ computed' = {}
  /\ reads' = {}
  /\ transferred' = transferred \cup TransferObjects(message)
  /\ rolesBefore' = NoSnapshot
  /\ UNCHANGED <<store, consumer, console, inbox, heap, nextId, loopVars, frames, inits>>

ReadyPost ==
  /\ pc = "post"
  /\ state' = [state EXCEPT !.resetRequested = FALSE]
  /\ posted' = [message EXCEPT !.type = "result"]
  /\ postCount' = postCount + 1
  /\ message' = NoMessage
  /\ pc' = "idle"
  /\ handled' = Handled("ready", FALSE)
  /\ received' = {}
  /\ resetSeen' = FALSE
  /\ applied' = <<>>
  /\ before' = NoSnapshot
  /\ drained' = NoSnapshot
  /\ computed' = {}
  /\ reads' = {}
  /\ transferred' = transferred \cup TransferObjects(message)
  /\ rolesBefore' = NoSnapshot
  /\ UNCHANGED <<store, consumer, console, inbox, heap, nextId, loopVars, frames, inits>>

(***************************************************************************)
(* onmessage: the worker takes the next message when it is idle.           *)
(***************************************************************************)
\* case 'init', for the messages of a set.
OnInitOf(messages) ==
  /\ pc = "idle"
  /\ MoreMessages
  /\ inits < MaxInits
  /\ \E data \in messages : handleInit(data)
  /\ inits' = inits + 1
  /\ handled' = Handled("init", FALSE)
  /\ received' = {}
  /\ resetSeen' = FALSE
  /\ UNCHANGED <<rolesBefore, store, transferred, consumer, console, inbox, pc, loopVars, message, posted, postCount, applied, before, drained,
                 computed, reads, frames>>

OnInit == OnInitOf(InitMessages)

OnReset ==
  /\ pc = "idle"
  /\ MoreMessages
  /\ handleReset
  /\ resetSeen' = TRUE
  /\ handled' = Handled("reset", FALSE)
  /\ UNCHANGED <<rolesBefore, store, transferred, consumer, console, inbox, heap, nextId, pc, loopVars, message, posted, postCount, received, applied,
                 before, drained, computed, reads, frames, inits>>

OnPointer ==
  /\ pc = "idle"
  /\ MoreMessages
  /\ \E data \in PointerMessages :
       /\ \/ Len(state.pendingPointerEvents) < MaxPending
          \/ \E i \in 1..Len(state.pendingPointerEvents) :
               PointerKey(state.pendingPointerEvents[i]) = PointerKey(data)
       /\ handlePointer(data)
       /\ received' = received \cup {PointerEvent(data)}
       /\ handled' = Handled("pointer", FALSE)
  /\ UNCHANGED <<rolesBefore, store, transferred, consumer, console, inbox, heap, nextId, pc, loopVars, message, posted, postCount, resetSeen, applied,
                 before, drained, computed, reads, frames, inits>>

OnReady ==
  \/ ReadyDrain
  \/ ReadyPropagate
  \/ ReadyBuild
  \/ ReadyPost

Next ==
  \/ OnInit
  \/ OnReset
  \/ OnPointer
  \/ OnReady

Spec == Init /\ [][Next]_vars

\* Where fns.handleReady is: the part it is in and the subdivision its loops
\* are at.
position == <<pc, subRowIdx, subColIdx>>

\* fns.handleReady goes on: a handler that has started moves to its next
\* subdivision or its next part.
HandlerStep ==
  /\ pc # "idle"
  /\ \E part \in {"idle", "propagate", "build", "post"},
        row \in 0..state.subdivisionRows, column \in 0..state.subdivisionColumns :
       /\ pc' = part
       /\ subRowIdx' = row
       /\ subColIdx' = column
       /\ <<part, row, column>> # position

\* Once fns.handleReady has started it runs to its end: it is straight-line
\* code with bounded loops, and nothing else runs in the worker meanwhile.
FairSpec == Spec /\ WF_position(HandlerStep)

(***************************************************************************)
(* The worker when it also gets messages of types it does not know.        *)
(***************************************************************************)
\* default: console.warn
\* A switch whose default would fall into the case of 'reset'.
OnUnrecognizedAsReset ==
  /\ pc = "idle"
  /\ MoreMessages
  /\ \E data \in UnrecognizedMessages : console' = console \cup {data.type}
  /\ handled' = Handled("unrecognized", FALSE)
  /\ handleReset
  /\ UNCHANGED <<rolesBefore, store, transferred, consumer, inbox, heap, nextId, pc, loopVars, message, posted, postCount,
                 received, resetSeen, applied, before, drained, computed, reads, frames, inits>>

OnUnrecognized ==
  /\ pc = "idle"
  /\ MoreMessages
  /\ \E data \in UnrecognizedMessages : console' = console \cup {data.type}
  /\ handled' = Handled("unrecognized", FALSE)
  /\ UNCHANGED <<rolesBefore, store, transferred, consumer, inbox, state, heap, nextId, pc, loopVars, message, posted, postCount,
                 received, resetSeen, applied, before, drained, computed, reads, frames, inits>>

\* case 'init', for one grid.
OnInitOfSquareTiles == OnInitOf({SquareTiles})

UnrecognizedNext ==
  \/ OnInitOfSquareTiles
  \/ OnReset
  \/ OnPointer
  \/ OnReady
  \/ OnUnrecognized

UnrecognizedSpec == Init /\ [][UnrecognizedNext]_vars

(***************************************************************************)
(* The worker when 'ready' messages are posted to it at any moment, also   *)
(* while a handler runs: they wait in the queue of the worker until the    *)
(* handler has returned.                                                   *)
(***************************************************************************)
readyMessageToWorker == [type |-> "ready"]

\* worker.postMessage(readyMessage) on the side of the consumer, which has
\* posted its 'init' before.
PostReady ==
  /\ inits > 0
  /\ MoreMessages
  /\ Len(inbox) < MaxInbox
  /\ inbox' = Append(inbox, readyMessageToWorker)
  /\ UNCHANGED <<rolesBefore, store, transferred, consumer, state, heap, nextId, pc, loopVars, message, posted, postCount,
                 received, resetSeen, applied, before, drained, computed, reads, frames,
                 inits, handled, console>>

\* A handler that would run whenever a message is there.
HandlerInterrupted == TRUE

\* onmessage is called when no handler is running.
MessageLoopIdle == pc = "idle"

\* case 'ready', for the message at the head of the queue.
ReadyDrainQueued ==
  /\ MessageLoopIdle
  /\ inbox # <<>>
  /\ Head(inbox).type = "ready"
  /\ inbox' = Tail(inbox)
  /\ DrainStep

QueuedNext ==
  \/ OnInitOfSquareTiles
  \/ OnPointer
  \/ PostReady
  \/ ReadyDrainQueued
  \/ ReadyPropagate
  \/ ReadyBuild
  \/ ReadyPost

QueuedSpec == Init /\ [][QueuedNext]_vars

(***************************************************************************)
(* The worker with its consumer, WaterPlane: the effect that starts the    *)
(* worker, the handler of its results and the frame callback.              *)
(***************************************************************************)
\* The effect, once the worker has its 'init': worker.postMessage(readyMessage).
StartWorker ==
  /\ inits > 0
  /\ consumer.sent = 0
  /\ consumer' = [consumer EXCEPT !.lastWorkerResult = null, !.sent = 1]
  /\ inbox' = Append(inbox, readyMessageToWorker)
  /\ UNCHANGED <<rolesBefore, store, transferred, state, heap, nextId, pc, loopVars, message, posted, postCount, received,
                 resetSeen, applied, before, drained, computed, reads, frames, inits,
                 handled, console>>

\* messageHandler, for the next result the worker has posted.
messageHandler ==
  /\ consumer.received < postCount
  /\ consumer' = [consumer EXCEPT !.lastWorkerResult = <<consumer.received + 1>>,
                                  !.received = @ + 1]
  /\ UNCHANGED <<rolesBefore, store, transferred, state, heap, nextId, pc, loopVars, message, posted, postCount, received,
                 resetSeen, applied, before, drained, computed, reads, frames, inits,
                 handled, console, inbox>>

\* A frame callback that would leave the result where it is.
useFrameKeepingResult ==
  /\ MoreMessages
  /\ consumer.lastWorkerResult # null
  /\ consumer' = [consumer EXCEPT !.sent = @ + 1, !.consumed = @ + 1]
  /\ inbox' = Append(inbox, readyMessageToWorker)
  /\ UNCHANGED <<rolesBefore, store, transferred, state, heap, nextId, pc, loopVars, message, posted, postCount, received,
                 resetSeen, applied, before, drained, computed, reads, frames, inits,
                 handled, console>>

\* The frame callback when it is time to update the buffers and there is a
\* result: the result is copied and cleared, and a 'ready' is posted.
useFrame ==
  /\ MoreMessages
  /\ consumer.lastWorkerResult # null
  /\ consumer' = [consumer EXCEPT !.lastWorkerResult = null, !.sent = @ + 1,
                                  !.consumed = @ + 1]
  /\ inbox' = Append(inbox, readyMessageToWorker)
  /\ UNCHANGED <<rolesBefore, store, transferred, state, heap, nextId, pc, loopVars, message, posted, postCount, received,
                 resetSeen, applied, before, drained, computed, reads, frames, inits,
                 handled, console>>

ConsumerNext ==
  \/ OnInitOfSquareTiles
  \/ OnPointer
  \/ StartWorker
  \/ messageHandler
  \/ useFrame
  \/ ReadyDrainQueued
  \/ ReadyPropagate
  \/ ReadyBuild
  \/ ReadyPost

ConsumerSpec == Init /\ [][ConsumerNext]_vars

(***************************************************************************)
(* The worker, WaterPlane and the store of the interface: the Reset button *)
(* of InterfaceControls calls initiateReset.  WaterPlane posts 'init',     *)
(* 'ready' and 'pointer' messages (for the pointer and for rain) and no    *)
(* other; it subscribes to rainFrequencySeconds and scaling of the store.  *)
(***************************************************************************)
\* Date.now(), with the 'ready' messages the worker has taken as the clock:
\* the number of the 'ready' it takes next.
DateNow == frames + 1

\* initiateReset: state.lastResetTime = Date.now(), for the Reset button
\* pressed once WaterPlane has started its worker.
initiateReset ==
  /\ consumer.sent > 0
  /\ store.lastResetTime # DateNow
  /\ store' = [store EXCEPT !.lastResetTime = DateNow]
  /\ UNCHANGED <<rolesBefore, transferred, consumer, console, inbox, state, heap, nextId, pc, loopVars, message,
                 posted, postCount, received, resetSeen, applied, before, drained, computed,
                 reads, frames, inits, handled>>

InterfaceNext ==
  \/ OnInitOfSquareTiles
  \/ OnPointer
  \/ StartWorker
  \/ messageHandler
  \/ useFrame
  \/ initiateReset
  \/ ReadyDrainQueued
  \/ ReadyPropagate
  \/ ReadyBuild
  \/ ReadyPost

\* The worker and WaterPlane go on whenever they can: a handler that has
\* started runs to its end, a posted message is handled, and frames keep
\* being rendered.
InterfaceSpec ==
  /\ Init
  /\ [][InterfaceNext]_vars
  /\ WF_position(HandlerStep)
  /\ WF_vars(ReadyDrainQueued)
  /\ WF_vars(StartWorker)
  /\ WF_vars(messageHandler)
  /\ WF_vars(useFrame)

(***************************************************************************)
(* The worker when the 'init' messages it gets carry a template whose size *)
(* is not that of the declared subdivision.                                *)
(***************************************************************************)
OnMismatchedInit == OnInitOf(MismatchedInitMessages)

MismatchedNext ==
  \/ OnMismatchedInit
  \/ OnReset
  \/ OnPointer
  \/ OnReady

MismatchedSpec == Init /\ [][MismatchedNext]_vars

(***************************************************************************)
(* The numbers of the program at their full width.  A number is a sign and *)
(* a magnitude counted in units of 2^-160, the magnitude written in Limbs  *)
(* digits of base LimbBase, the lowest digit first.  A Float32Array holds  *)
(* multiples of 2^-149 of at most 24 significant bits; the arithmetic of   *)
(* the handler is on doubles, of at most 53 significant bits, and every    *)
(* operation rounds its exact result to the nearest such number, to the    *)
(* even one of two that are equally near.                                  *)
(***************************************************************************)
Limbs == 12

LimbBits == 15

LimbBase == 2 ^ LimbBits

\* 2^-149, the smallest positive number of a Float32Array, is 2^11 units.
Float32Quantum == 11

\* 1.0 is 2^160 units.
UnitBit == 160

RECURSIVE Listed(_, _)
\* The first n digits a function gives, as a sequence.
Listed(digits, n) == IF n = 0 THEN <<>> ELSE Append(Listed(digits, n - 1), digits[n])

MagZero == Listed([i \in 1..Limbs |-> 0], Limbs)

MagPowerOfTwo(bit) ==
  Listed([i \in 1..Limbs |-> IF i = (bit \div LimbBits) + 1 THEN 2 ^ (bit % LimbBits) ELSE 0], Limbs)

MagLess(a, b) ==
  \E i \in 1..Limbs : a[i] < b[i] /\ \A j \in (i + 1)..Limbs : a[j] = b[j]

RECURSIVE MagAddFrom(_, _, _, _)
MagAddFrom(a, b, i, carry) ==
  IF i > Limbs
  THEN <<>>
  ELSE <<(a[i] + b[i] + carry) % LimbBase>>
         \o MagAddFrom(a, b, i + 1, (a[i] + b[i] + carry) \div LimbBase)

MagAdd(a, b) == MagAddFrom(a, b, 1, 0)

RECURSIVE MagSubFrom(_, _, _, _)
\* a - b for a >= b.
MagSubFrom(a, b, i, borrow) ==
  IF i > Limbs
  THEN <<>>
  ELSE <<(a[i] - b[i] - borrow + LimbBase) % LimbBase>>
         \o MagSubFrom(a, b, i + 1, IF a[i] - b[i] - borrow < 0 THEN 1 ELSE 0)

MagSub(a, b) == MagSubFrom(a, b, 1, 0)

RECURSIVE MagTimesFrom(_, _, _, _)
MagTimesFrom(a, n, i, carry) ==
  IF i > Limbs
  THEN <<>>
  ELSE <<((a[i] * n) + carry) % LimbBase>>
         \o MagTimesFrom(a, n, i + 1, ((a[i] * n) + carry) \div LimbBase)

MagTimes(a, n) == MagTimesFrom(a, n, 1, 0)

RECURSIVE MagDivFrom(_, _, _, _)
\* Long division by a small number, from the highest digit down.
MagDivFrom(a, n, i, remainder) ==
  IF i = 0
  THEN <<>>
  ELSE MagDivFrom(a, n, i - 1, ((remainder * LimbBase) + a[i]) % n)
         \o <<((remainder * LimbBase) + a[i]) \div n>>

MagDiv(a, n) == MagDivFrom(a, n, Limbs, 0)

\* The bit of weight 2^bit.
MagBit(a, bit) == (a[(bit \div LimbBits) + 1] \div (2 ^ (bit % LimbBits))) % 2

\* The number of significant bits.
MagLength(a) ==
  IF a = MagZero
  THEN 0
  ELSE LET top == CHOOSE i \in 1..Limbs : a[i] # 0 /\ \A j \in (i + 1)..Limbs : a[j] = 0
           width == CHOOSE k \in 1..LimbBits : a[top] \div (2 ^ k) = 0 /\ a[top] \div (2 ^ (k - 1)) # 0
       IN  (LimbBits * (top - 1)) + width

\* The bits below 2^bit cleared.
MagTruncated(a, bit) ==
  Listed([i \in 1..Limbs |->
            IF LimbBits * i <= bit THEN 0
            ELSE IF LimbBits * (i - 1) >= bit THEN a[i]
            ELSE (a[i] \div (2 ^ (bit - (LimbBits * (i - 1))))) * (2 ^ (bit - (LimbBits * (i - 1))))],
         Limbs)

\* Whether a bit below 2^bit is set.
MagSetBelow(a, bit) ==
  \E i \in 1..Limbs :
     \/ LimbBits * i <= bit /\ a[i] # 0
     \/ /\ LimbBits * (i - 1) < bit
        /\ LimbBits * i > bit
        /\ a[i] % (2 ^ (bit - (LimbBits * (i - 1)))) # 0

\* Rounding to `bits` significant bits and to a multiple of 2^lowest, to the
\* nearest, ties to even.
MagRounded(a, bits, lowest) ==
  LET length == MagLength(a)
      bit == IF length - bits > lowest THEN length - bits ELSE lowest
      up == /\ MagBit(a, bit - 1) = 1
            /\ MagSetBelow(a, bit - 1) \/ MagBit(a, bit) = 1
  IN  IF bit <= 0 THEN a
      ELSE IF up THEN MagAdd(MagTruncated(a, bit), MagPowerOfTwo(bit))
      ELSE MagTruncated(a, bit)

\* A number; zero has one sign here (+0 and -0 are equal in every
\* comparison and sum of the handler).
Number(negative, mag) == [negative |-> negative /\ mag # MagZero, mag |-> mag]

Zero == Number(FALSE, MagZero)

One == Number(FALSE, MagPowerOfTwo(UnitBit))

MinusOne == Number(TRUE, MagPowerOfTwo(UnitBit))

Minus(x) == Number(~x.negative, x.mag)

Plus(x, y) ==
  IF x.negative = y.negative THEN Number(x.negative, MagAdd(x.mag, y.mag))
  ELSE IF MagLess(x.mag, y.mag) THEN Number(y.negative, MagSub(y.mag, x.mag))
  ELSE Number(x.negative, MagSub(x.mag, y.mag))

Less(x, y) ==
  IF x.negative # y.negative THEN x.negative
  ELSE IF x.negative THEN MagLess(y.mag, x.mag)
  ELSE MagLess(x.mag, y.mag)

\* The double nearest to an exact result.
Double(x) == Number(x.negative, MagRounded(x.mag, 53, 0))

\* What a Float32Array keeps of a double stored in it.
Float32(x) == Number(x.negative, MagRounded(x.mag, 24, Float32Quantum))

\* a + b, a - b, a / 2.0, a * factor, Math.max and Math.min on doubles.
DoubleAdd(a, b) == Double(Plus(a, b))

DoubleSub(a, b) == Double(Plus(a, Minus(b)))

DoubleHalf(a) == Double(Number(a.negative, MagDiv(a.mag, 2)))

DoubleMul(a, factor) ==
  Double(Number(a.negative, MagDiv(MagTimes(a.mag, factor.num), factor.den)))

DoubleMax(a, b) == IF Less(a, b) THEN b ELSE a

DoubleMin(a, b) == IF Less(b, a) THEN b ELSE a

(***************************************************************************)
(* The worker on the numbers above: one tile of 2 x 2 vertices that an     *)
(* 'init' has configured, one 'pointer' message at most, and 'ready' after *)
(* 'ready'.  A 'ready' is two steps here, the drain with the propagation   *)
(* loop and the loop that swaps with the end of the handler; the result    *)
(* message, whose arrays are copies the worker never reads again, and the  *)
(* counters of messages are left out, so that a surface that repeats an    *)
(* earlier one is the same state.                                          *)
(***************************************************************************)
SevenEighths == [num |-> 7, den |-> 8]

\* An integer as a number.
Whole(n) == Number(n < 0, MagTimes(MagPowerOfTwo(UnitBit), IF n < 0 THEN 0 - n ELSE n))

\* The plane of PlaneTemplate, at rest at depth 0.
RoundedTemplate(rows, columns) ==
  [k \in 1..(3 * rows * columns) |->
     LET vertex == (k - 1) \div 3
     IN  CASE (k - 1) % 3 = 0 -> Whole(vertex % columns)
           [] (k - 1) % 3 = 1 -> Whole(0 - (vertex \div columns))
           [] OTHER -> Zero]

\* One tile of 2 x 2 vertices, depths in [-1, 1], for a damping factor.
RoundedTile(damping) ==
  initMessageToWorker(1, 1, 2, 2, MinusOne, One, damping, RoundedTemplate(2, 2))

RoundedInitMessages == {RoundedTile(Half), RoundedTile(ThreeQuarters), RoundedTile(SevenEighths)}

\* The worker when it has handled the 'init' message of such a tile.
RoundedInit ==
  /\ \E data \in RoundedInitMessages :
       state = [subdivisionRows |-> data.subdivisionRows,
                subdivisionColumns |-> data.subdivisionColumns,
                columnsPerSubdivision |-> data.columnsPerSubdivision,
                rowsPerSubdivision |-> data.rowsPerSubdivision,
                minVertexDepth |-> data.minVertexDepth,
                maxVertexDepth |-> data.maxVertexDepth,
                baseVertexDepth |->
                  DoubleAdd(data.minVertexDepth,
                            DoubleHalf(DoubleSub(data.maxVertexDepth, data.minVertexDepth))),
                vertexDepthRange |-> DoubleSub(data.maxVertexDepth, data.minVertexDepth),
                waveDampingFactor |-> data.waveDampingFactor,
                sourcePositions |-> (<<0, 0>> :> 1),
                resultPositions |-> (<<0, 0>> :> 2),
                resetRequested |-> FALSE,
                pendingPointerEvents |-> <<>>]
          /\ heap = (1 :> data.vertexPositionTemplate) @@ (2 :> data.vertexPositionTemplate)
  /\ nextId = 3
  /\ pc = "idle"
  /\ subRowIdx = 0
  /\ subColIdx = 0
  /\ message = NoMessage
  /\ posted = NoMessage
  /\ postCount = 0
  /\ received = {}
  /\ resetSeen = FALSE
  /\ applied = <<>>
  /\ before = NoSnapshot
  /\ drained = NoSnapshot
  /\ computed = {}
  /\ reads = {}
  /\ frames = 0
  /\ inits = 1
  /\ handled = Handled("init", FALSE)
  /\ console = {}
  /\ inbox = <<>>
  /\ consumer = WaterPlaneRefs
  /\ transferred = {}
  /\ store = useStore
  /\ rolesBefore = NoSnapshot

\* case 'pointer': the one pointer message, the first message after 'init'.
RoundedPointer ==
  /\ pc = "idle"
  /\ handled.type = "init"
  /\ \E vertex \in 0..(vertexCount - 1) :
       /\ handlePointer(pointerMessageToWorker(0, 0, vertex))
       /\ received' = {PointerEvent(pointerMessageToWorker(0, 0, vertex))}
  /\ handled' = Handled("pointer", FALSE)
  /\ UNCHANGED <<rolesBefore, store, transferred, consumer, console, inbox, heap, nextId, pc, loopVars, message, posted, postCount, resetSeen, applied,
                 before, drained, computed, reads, frames, inits>>

RECURSIVE RoundedTotal(_, _)
\* adjacentTotal += getZ(...), read after read.
RoundedTotal(h, toRead) ==
  IF toRead = <<>>
  THEN Zero
  ELSE DoubleAdd(RoundedTotal(h, SubSeq(toRead, 1, Len(toRead) - 1)), ReadValue(h, toRead[Len(toRead)]))

\* newZValue, and what setZ leaves of it in the Float32Array.
RoundedZValue(total, current) ==
  Float32(DoubleMul(DoubleMin(state.maxVertexDepth,
                              DoubleMax(state.minVertexDepth, DoubleSub(DoubleHalf(total), current))),
                    state.waveDampingFactor))

RoundedVertex(h, row, column, vertex) ==
  LET sourcePositions == state.sourcePositions[<<row, column>>]
      resultPositions == state.resultPositions[<<row, column>>]
  IN  IF state.resetRequested
      THEN LET h1 == [h EXCEPT ![sourcePositions] = setZ(@, vertex, state.baseVertexDepth)]
           IN  [h1 EXCEPT ![resultPositions] = setZ(@, vertex, state.baseVertexDepth)]
      ELSE [h EXCEPT ![resultPositions] =
              setZ(@, vertex,
                   RoundedZValue(RoundedTotal(h, NeighbourReads(row, column, vertex)),
                                 getZ(h[resultPositions], vertex)))]

RECURSIVE RoundedVertices(_, _, _, _)
\* for (let vertexIdx = 0; vertexIdx < vertexCount; vertexIdx++)
RoundedVertices(h, row, column, vertex) ==
  IF vertex >= vertexCount
  THEN h
  ELSE RoundedVertices(RoundedVertex(h, row, column, vertex), row, column, vertex + 1)

\* case 'ready', up to the end of the propagation loop.
RoundedPropagate ==
  /\ pc = "idle"
  /\ ~Drain.threw
  /\ heap' = RoundedVertices(Drain.heap, subRowIdx, subColIdx, 0)
  /\ state' = [state EXCEPT !.pendingPointerEvents = <<>>]
  /\ pc' = "build"
  /\ UNCHANGED <<rolesBefore, store, transferred, consumer, console, inbox, nextId, loopVars, message, posted, postCount, received, resetSeen, applied,
                 before, drained, computed, reads, frames, inits, handled>>

\* case 'ready', from the swap of the buffers to the end of the handler.
RoundedPost ==
  /\ pc = "build"
  /\ state' = [SwapPositions(<<subRowIdx, subColIdx>>) EXCEPT !.resetRequested = FALSE]
  /\ pc' = "idle"
  /\ handled' = Handled("ready", FALSE)
  /\ received' = {}
  /\ UNCHANGED <<rolesBefore, store, transferred, consumer, console, inbox, heap, nextId, loopVars, message, posted, postCount, resetSeen, applied,
                 before, drained, computed, reads, frames, inits>>

RoundedNext ==
  \/ RoundedPointer
  \/ RoundedPropagate
  \/ RoundedPost

\* The handler of a 'ready' moves on, and the next 'ready' comes.
ReadyGoesOn == \E part \in {"idle", "build"} : part # pc /\ pc' = part

\* WaterPlane posts a 'ready' for every result it has taken, so that the
\* sweeps never end; a handler that has started runs to its end.
RoundedSpec == RoundedInit /\ [][RoundedNext]_vars /\ WF_pc(ReadyGoesOn)

(***************************************************************************)
(* WaterPlane with the store, on its own: the effect that starts the       *)
(* worker, the handler of the worker's messages, the pointer listener, the *)
(* frame callback and the rain stage of the store.  The worker is the      *)
(* environment here: a result arrives for a 'ready' that was posted, and   *)
(* inbox holds the messages the handler that ran last has posted, the      *)
(* worker taking them as they come.  Times are whole ticks.  The grid is   *)
(* the one of the source, 6 x 6 subdivisions with 128 rows of vertices     *)
(* each, but for the columns of vertices of a subdivision, which are 128   *)
(* in the source and are fewer here.                                       *)
(***************************************************************************)
SUBDIVISION_ROWS == 6

SUBDIVISION_COLUMNS == 6

VERTEX_ROWS == 128

VERTEX_COLUMNS == 3

VERTEX_COUNT == VERTEX_ROWS * VERTEX_COLUMNS

MIN_Z_DEPTH == 0 - Unit

MAX_Z_DEPTH == Unit

BASE_Z_DEPTH == (MAX_Z_DEPTH + MIN_Z_DEPTH) \div 2

RECURSIVE GCD(_, _)
GCD(a, b) == IF b = 0 THEN a ELSE GCD(b, a % b)

\* The fraction num / den in lowest terms, den > 0.
Ratio(num, den) ==
  LET g == GCD(IF num < 0 THEN 0 - num ELSE num, den)
  IN  [num |-> num \div g, den |-> den \div g]

RatioMinus(a, b) == Ratio((a.num * b.den) - (b.num * a.den), a.den * b.den)

\* a / b for b > 0.
RatioOver(a, b) == Ratio(a.num * b.den, a.den * b.num)

\* ((rows / 2) - 1) / (rows / 2), for the rows of the whole grid.
DampingOf(subdivisionRows, vertexRows) ==
  RatioOver(RatioMinus(Ratio(subdivisionRows * vertexRows, 2), Ratio(1, 1)),
            Ratio(subdivisionRows * vertexRows, 2))

WAVE_DAMPING == DampingOf(SUBDIVISION_ROWS, VERTEX_ROWS)

\* The ticks of a second.
Second == 60

FRAME_SECONDS == Second \div 30

POINTER_DEBOUNCE_SECONDS == Second \div 30

\* [0, 0.15, 0.5, 1, 1.5] seconds.
rainFrequencyStages ==
  <<0, (15 * Second) \div 100, (5 * Second) \div 10, Second, (15 * Second) \div 10>>

\* The clock of the scene is followed up to this tick.
MaxTime == 12

\* The ticks between one frame and the next.
Deltas == {2, 10}

workerVars == <<state, heap, nextId, pc, subRowIdx, subColIdx, message, posted, postCount,
                received, resetSeen, applied, before, drained, computed, reads, frames,
                inits, handled, console, transferred, rolesBefore>>

\* The message of the effect, with the template of the first subdivision.
initMessage ==
  initMessageToWorker(SUBDIVISION_ROWS, SUBDIVISION_COLUMNS, VERTEX_ROWS, VERTEX_COLUMNS,
                      MIN_Z_DEPTH, MAX_Z_DEPTH, WAVE_DAMPING,
                      PlaneTemplate(VERTEX_ROWS, VERTEX_COLUMNS, BASE_Z_DEPTH))

\* The effect that creates the worker: 'init', lastWorkerResult = null, 'ready'.
createWorker ==
  /\ consumer.sent = 0
  /\ inbox' = <<initMessage, readyMessageToWorker>>
  /\ consumer' = [consumer EXCEPT !.lastWorkerResult = null, !.sent = 1,
                                  !.from = <<"effect", "effect">>]
  /\ UNCHANGED <<workerVars, store>>

\* messageHandler for a message of the worker, which posts one of type
\* 'result' and only for a 'ready'.
resultHandler ==
  /\ consumer.received < consumer.sent
  /\ \E e \in {[data |-> [type |-> "result"]]} :
       /\ e.data.type = "result"
       /\ consumer' = [consumer EXCEPT !.lastWorkerResult = <<consumer.received + 1>>,
                                       !.received = @ + 1]
  /\ UNCHANGED <<workerVars, store, inbox>>

(***************************************************************************)
(* The pointer.  The raycaster is three.js: what it returns is an input,   *)
(* a list of intersections, each with the subdivision of its mesh, a face  *)
(* of the PlaneGeometry (or none) and the distance of the point from each  *)
(* vertex of the face.                                                     *)
(***************************************************************************)
\* The two faces PlaneGeometry builds for the segment (ix, iy).
PlaneFaces(ix, iy) ==
  LET gridX1 == VERTEX_COLUMNS
      a == ix + (gridX1 * iy)
      b == ix + (gridX1 * (iy + 1))
      c == (ix + 1) + (gridX1 * (iy + 1))
      d == (ix + 1) + (gridX1 * iy)
  IN  {<<a, b, d>>, <<b, c, d>>}

FaceDistances == {<<1, 2, 3>>, <<2, 1, 1>>}

Intersection(subdivision, face, distance) ==
  [object |-> subdivision, face |-> face, distance |-> distance]

\* The points the pointer is put on: on the first face of the last
\* subdivision of the first row, and on the last face of a subdivision of
\* the last row.
Pointed ==
  {Intersection(<<0, SUBDIVISION_COLUMNS - 1>>, face, distance) :
     face \in {f \in PlaneFaces(0, 0) : f[1] = 0}, distance \in FaceDistances}
    \cup {Intersection(<<SUBDIVISION_ROWS - 1, 2>>, face, distance) :
             face \in {f \in PlaneFaces(VERTEX_COLUMNS - 2, VERTEX_ROWS - 2) : f[2] = VERTEX_COUNT - 1},
             distance \in FaceDistances}

\* An intersection for which three.js gives no face.
Faceless(intersection) == [intersection EXCEPT !.face = null]

\* What raycaster.intersectObjects returns for all the meshes.
AllIntersects ==
  {<<>>}
    \cup {<<intersection>> : intersection \in Pointed}
    \cup {<<Faceless(intersection)>> : intersection \in Pointed}
    \cup {both \in {<<Faceless(first), second>> : first \in Pointed, second \in Pointed} :
            both[1].distance = both[2].distance}

\* Number.MAX_SAFE_INTEGER, which is more than any distance on the plane.
MAX_SAFE_INTEGER == 2 ^ 30

RECURSIVE NearestFrom(_, _, _, _, _)
\* The forEach over face.a, face.b and face.c.
NearestFrom(face, distance, k, nearestVertexIdx, nearestVertexDistance) ==
  IF k > Len(face)
  THEN nearestVertexIdx
  ELSE IF distance[k] < nearestVertexDistance
       THEN NearestFrom(face, distance, k + 1, face[k], distance[k])
       ELSE NearestFrom(face, distance, k + 1, nearestVertexIdx, nearestVertexDistance)

findNearestVertex(subdivision, intersection) ==
  IF intersection.face = null
  THEN 0
  ELSE NearestFrom(intersection.face, intersection.distance, 1, -1, MAX_SAFE_INTEGER)

\* The first intersection that has a face, <<>> if there is none.
RECURSIVE FirstWithFace(_)
FirstWithFace(intersects) ==
  IF intersects = <<>>
  THEN <<>>
  ELSE IF Head(intersects).face # null
       THEN <<Head(intersects)>>
       ELSE FirstWithFace(Tail(intersects))

IsSubdivision(row, column) ==
  /\ row \in 0..(SUBDIVISION_ROWS - 1)
  /\ column \in 0..(SUBDIVISION_COLUMNS - 1)

\* raycaster.intersectObject(mesh) for the mesh of one subdivision, when
\* raycaster.intersectObjects(subdivisionMeshes) gives intersects.
RECURSIVE IntersectObject(_, _)
IntersectObject(subdivision, intersects) ==
  IF intersects = <<>>
  THEN <<>>
  ELSE IF Head(intersects).object = subdivision
       THEN <<Head(intersects)>> \o IntersectObject(subdivision, Tail(intersects))
       ELSE IntersectObject(subdivision, Tail(intersects))

\* The refs after pointerMoved for the event e, when the raycaster finds
\* intersects on the meshes.
pointerMoved(refs, e, intersects) ==
  IF e.buttons % 2 = 0
  THEN [refs EXCEPT !.pointerSubdivisionRowIndex = -1,
                    !.pointerSubdivisionColumnIndex = -1,
                    !.pointerVertexIndex = -1,
                    !.released = TRUE]
  ELSE IF e.target.nodeName = "BUTTON"
  THEN refs
  ELSE IF /\ refs.pointerVertexIndex # -1
          /\ ~IsSubdivision(refs.pointerSubdivisionRowIndex, refs.pointerSubdivisionColumnIndex)
  THEN refs  \* subdivisionsByRowCol[-1] is undefined: the listener throws
  ELSE LET lastSubdivision == <<refs.pointerSubdivisionRowIndex,
                                refs.pointerSubdivisionColumnIndex>>
           lastMeshIntersect == IntersectObject(lastSubdivision, intersects)
       IN
       IF /\ refs.pointerVertexIndex # -1
          /\ Len(lastMeshIntersect) > 0
          /\ lastMeshIntersect[1].face # null
  THEN [refs EXCEPT !.pointerVertexIndex =
                       findNearestVertex(lastSubdivision, lastMeshIntersect[1]),
                    !.released = FALSE]
  ELSE LET found == FirstWithFace(intersects)
       IN  IF found = <<>>
           THEN refs
           ELSE [refs EXCEPT !.pointerVertexIndex =
                                findNearestVertex(found[1].object, found[1]),
                             !.pointerSubdivisionRowIndex = found[1].object[1],
                             !.pointerSubdivisionColumnIndex = found[1].object[2],
                             !.released = FALSE]

PointerEvents ==
  {[buttons |-> buttons, target |-> [nodeName |-> nodeName]] :
     buttons \in 0..2, nodeName \in {"BUTTON", "CANVAS"}}

\* A pointerdown, pointermove or pointerup event of the window, once the
\* listeners are there.
onPointerEvent ==
  /\ consumer.sent > 0
  /\ \E e \in PointerEvents, intersects \in AllIntersects :
       consumer' = pointerMoved(consumer, e, intersects)
  /\ UNCHANGED <<workerVars, store, inbox>>

(***************************************************************************)
(* The frame callback.  Math.random() is a double in [0, 1).               *)
(***************************************************************************)
\* The largest double below 1.
AlmostOne == Number(FALSE, MagSub(MagPowerOfTwo(UnitBit), MagPowerOfTwo(UnitBit - 53)))

OneHalf == Number(FALSE, MagPowerOfTwo(UnitBit - 1))

\* What the three calls of one frame return.
Randoms ==
  {<<Zero, Zero, Zero>>, <<OneHalf, AlmostOne, Zero>>, <<Zero, OneHalf, AlmostOne>>,
   <<AlmostOne, AlmostOne, AlmostOne>>}

\* Math.floor, and Math.round, of a double that is not negative.
MathFloor(x) ==
  (x.mag[Limbs - 1] \div (2 ^ (UnitBit % LimbBits)))
    + (x.mag[Limbs] * (2 ^ (LimbBits - (UnitBit % LimbBits))))

MathRound(x) == MathFloor(Plus(x, OneHalf))

\* An index that would be rounded to the nearest integer.
RandomIndexRounded(random, count) ==
  MathRound(Double(Number(FALSE, MagTimes(random.mag, count))))

\* Math.floor(Math.random() * count)
RandomIndex(random, count) ==
  MathFloor(Double(Number(FALSE, MagTimes(random.mag, count))))

\* The indices the branch for rain draws in one frame.
RandomIndices ==
  {[randomRowIndex |-> RandomIndex(random[1], SUBDIVISION_ROWS),
    randomColumnIndex |-> RandomIndex(random[2], SUBDIVISION_COLUMNS),
    randomVertexIndex |-> RandomIndex(random[3], VERTEX_COUNT)] : random \in Randoms}

PointerDue(refs, elapsedTime) ==
  /\ elapsedTime > refs.pointerLastFiredTime + POINTER_DEBOUNCE_SECONDS
  /\ refs.pointerVertexIndex > -1
  /\ refs.pointerSubdivisionRowIndex > -1
  /\ refs.pointerSubdivisionColumnIndex > -1

RainDue(refs, elapsedTime) ==
  /\ refs.rainFrequencySeconds > 0
  /\ elapsedTime > refs.lastRainTime + refs.rainFrequencySeconds

BuffersDue(refs, elapsedTime) ==
  /\ elapsedTime > refs.lastRenderTime + FRAME_SECONDS
  /\ refs.lastWorkerResult # null

\* A branch for the pointer that would not note when it posted.
PointerPostedUnnoted(refs, elapsedTime) ==
  IF PointerDue(refs, elapsedTime) THEN [refs EXCEPT !.touchedAt = elapsedTime] ELSE refs

\* The refs after the branch for the pointer.
PointerPosted(refs, elapsedTime) ==
  IF PointerDue(refs, elapsedTime)
  THEN [refs EXCEPT !.pointerLastFiredTime = elapsedTime, !.touchedAt = elapsedTime]
  ELSE refs

\* The frame callback, for the next frame.
useFrameCallback ==
  \E delta \in Deltas, drawn \in RandomIndices :
    LET elapsedTime == consumer.elapsedTime + delta
        touch == PointerDue(consumer, elapsedTime)
        rain == RainDue(consumer, elapsedTime)
        buffers == BuffersDue(consumer, elapsedTime)
        pointed == PointerPosted(consumer, elapsedTime)
    IN  /\ consumer.sent > 0
        /\ elapsedTime <= MaxTime
        /\ inbox' =
             (IF touch
              THEN <<pointerMessageToWorker(consumer.pointerSubdivisionRowIndex,
                                            consumer.pointerSubdivisionColumnIndex,
                                            consumer.pointerVertexIndex)>>
              ELSE <<>>)
             \o (IF rain
                 THEN <<pointerMessageToWorker(drawn.randomRowIndex, drawn.randomColumnIndex,
                                               drawn.randomVertexIndex)>>
                 ELSE <<>>)
             \o (IF buffers THEN <<readyMessageToWorker>> ELSE <<>>)
        /\ consumer' =
             [pointed EXCEPT
                !.elapsedTime = elapsedTime,
                !.lastRainTime = IF rain THEN elapsedTime ELSE @,
                !.lastWorkerResult = IF buffers THEN null ELSE @,
                !.lastRenderTime = IF buffers THEN elapsedTime ELSE @,
                !.sent = IF buffers THEN @ + 1 ELSE @,
                !.consumed = IF buffers THEN @ + 1 ELSE @,
                !.from = (IF touch THEN <<"touch">> ELSE <<>>)
                           \o (IF rain THEN <<"rain">> ELSE <<>>)
                           \o (IF buffers THEN <<"buffers">> ELSE <<>>)]
        /\ UNCHANGED <<workerVars, store>>

(***************************************************************************)
(* The rain stage of the store.  WaterPlane subscribes to the store: set() *)
(* calls the listener, which copies rainFrequencySeconds into the ref.     *)
(***************************************************************************)
\* A setter that would take any index that is not negative.
setRainStageUnbounded(s, newStageIndex) ==
  IF newStageIndex >= 0
  THEN [s EXCEPT !.rainFrequencyStageIndex = newStageIndex,
                 !.rainFrequencySeconds =
                    IF newStageIndex < Len(rainFrequencyStages)
                    THEN rainFrequencyStages[newStageIndex + 1]
                    ELSE 0]
  ELSE s

setRainStage(s, newStageIndex) ==
  IF newStageIndex >= 0 /\ newStageIndex < Len(rainFrequencyStages)
  THEN [s EXCEPT !.rainFrequencyStageIndex = newStageIndex,
                 !.rainFrequencySeconds = rainFrequencyStages[newStageIndex + 1]]
  ELSE s

cycleRainStage(s) ==
  LET rainFrequencyStageIndex ==
        IF s.rainFrequencyStageIndex = 0
        THEN Len(rainFrequencyStages) - 1
        ELSE s.rainFrequencyStageIndex - 1
  IN  [s EXCEPT !.rainFrequencyStageIndex = rainFrequencyStageIndex,
                !.rainFrequencySeconds = rainFrequencyStages[rainFrequencyStageIndex + 1]]

\* The indices setRainStage is called with: whole numbers, in the list of
\* stages and next to it.
StageIndices == (0 - 2)..(Len(rainFrequencyStages) + 1)

\* The listener of the subscription, once WaterPlane is mounted.
Subscribed(refs, s) == [refs EXCEPT !.rainFrequencySeconds = s.rainFrequencySeconds]

\* A call of setRainStage, with WaterPlane mounted.
onSetRainStage ==
  /\ consumer.sent > 0
  /\ \E newStageIndex \in StageIndices : store' = setRainStage(store, newStageIndex)
  /\ consumer' = Subscribed(consumer, store')
  /\ UNCHANGED <<workerVars, inbox>>

\* The Rain button of InterfaceControls.
onCycleRainStage ==
  /\ consumer.sent > 0
  /\ store' = cycleRainStage(store)
  /\ consumer' = Subscribed(consumer, store')
  /\ UNCHANGED <<workerVars, inbox>>

WaterPlaneNext ==
  \/ createWorker
  \/ resultHandler
  \/ onPointerEvent
  \/ useFrameCallback
  \/ onSetRainStage
  \/ onCycleRainStage

WaterPlaneSpec == Init /\ [][WaterPlaneNext]_vars

(***************************************************************************)
(* What the properties speak of: the unified grid, and the depths of the   *)
(* buffers.  None of this is the program's code.                           *)
(***************************************************************************)
Cells == {Cell(tile, index) : tile \in Subdivisions, index \in 0..(vertexCount - 1)}

\* Row-major: index = row * columns + column.
GridRow(cell) ==
  (cell.tile[1] * state.rowsPerSubdivision) + (cell.index \div state.columnsPerSubdivision)

GridColumn(cell) ==
  (cell.tile[2] * state.columnsPerSubdivision) + (cell.index % state.columnsPerSubdivision)

Distance(a, b) ==
  (IF GridRow(a) >= GridRow(b) THEN GridRow(a) - GridRow(b) ELSE GridRow(b) - GridRow(a))
  + (IF GridColumn(a) >= GridColumn(b) THEN GridColumn(a) - GridColumn(b)
     ELSE GridColumn(b) - GridColumn(a))

Neighbours(cell) == {other \in Cells : Distance(cell, other) = 1}

\* The neighbour of a cell in a direction, as a set of at most one cell.
NeighbourAt(cell, direction) ==
  {other \in Cells :
     /\ GridRow(other) = GridRow(cell) + (CASE direction = "above" -> 0 - 1
                                            [] direction = "below" -> 1
                                            [] OTHER -> 0)
     /\ GridColumn(other) = GridColumn(cell) + (CASE direction = "left" -> 0 - 1
                                                  [] direction = "right" -> 1
                                                  [] OTHER -> 0)}

Directions == {"above", "below", "left", "right"}

InGrid(pointerEvent) == Cell(TileOf(pointerEvent), pointerEvent.vertexIndex) \in Cells

CellOf(pointerEvent) == Cell(TileOf(pointerEvent), pointerEvent.vertexIndex)

Depth(array, index) == array[(3 * index) + 3]

SourceDepth(cell) == Depth(heap[state.sourcePositions[cell.tile]], cell.index)

ResultDepth(cell) == Depth(heap[state.resultPositions[cell.tile]], cell.index)

Applied(events) == {events[i] : i \in 1..Len(events)}

\* A step that is the drain of a 'ready'.
IsDrain == pc = "idle" /\ frames' = frames + 1

(***************************************************************************)
(* C1.  The in-range pointer events received between two 'ready' messages, *)
(* with no 'reset' between them, are exactly the in-range events the drain *)
(* of the second 'ready' applies: each of them has its source depth at the *)
(* minimum and its result depth at the maximum when the drain is over, the *)
(* sweep follows, and the drain applies no event of an earlier interval.   *)
(***************************************************************************)
C1_DisturbsAppliedInNextDrain ==
  [][(IsDrain /\ ~resetSeen) =>
       /\ {e \in Applied(applied') : InGrid(e)} = {e \in received : InGrid(e)}
       /\ \A e \in received :
            InGrid(e) => /\ SourceDepth(CellOf(e))' = state.minVertexDepth
                         /\ ResultDepth(CellOf(e))' = state.maxVertexDepth
       /\ (\E e \in received : InGrid(e)) => pc' # "idle"]_vars

(***************************************************************************)
(* C2.  Inside one 'ready', the propagation loop swaps nothing and every   *)
(* neighbour read, also one into an adjacent tile, returns what the source *)
(* buffer of that tile held when the drain finished; the buffers of a tile *)
(* are swapped only when every vertex of every tile has been computed.     *)
(***************************************************************************)
C2_SweepReadsDrainedSource ==
  [][/\ pc = "propagate" =>
          /\ state'.sourcePositions = state.sourcePositions
          /\ state'.resultPositions = state.resultPositions
          /\ \A read \in reads' : read.value = getZ(drained.source[read.tile], read.index)
     /\ (pc # "idle" /\ state'.sourcePositions # state.sourcePositions) =>
          /\ pc = "build"
          /\ computed = Cells]_vars

\* A vertex has read, in an adjacent tile, a vertex that this sweep had
\* already computed, and got another value than the one the sweep wrote.
C2_Witness ==
  /\ pc \in {"propagate", "build"}
  /\ \E read \in reads :
       /\ read.tile # read.by.tile
       /\ Cell(read.tile, read.index) \in computed
       /\ ResultDepth(Cell(read.tile, read.index)) # read.value

\* The depths of a message, by cell.
PostedDepth(cell) == Depth(posted.vertexPositions[cell.tile].array, cell.index)

WithinBounds(depth) ==
  /\ ~IsNaN(depth)
  /\ state.minVertexDepth <= depth
  /\ depth <= state.maxVertexDepth

(***************************************************************************)
(* C3.  After every sweep, every depth lies between the minimum and the    *)
(* maximum vertex depth: in the source buffer and in the result buffer of  *)
(* every tile, and in the message posted last.                             *)
(***************************************************************************)
C3_DepthsWithinBounds ==
  (pc = "idle" /\ handled.type = "ready" /\ ~handled.threw) =>
     \A cell \in Cells :
        /\ WithinBounds(SourceDepth(cell))
        /\ WithinBounds(ResultDepth(cell))
        /\ WithinBounds(PostedDepth(cell))

RECURSIVE Sum(_, _)
\* The total of the depths an array-by-tile snapshot holds at a set of cells.
Sum(arrays, cells) ==
  IF cells = {}
  THEN 0
  ELSE LET cell == CHOOSE c \in cells : TRUE
       IN  FAdd(Depth(arrays[cell.tile], cell.index), Sum(arrays, cells \ {cell}))

\* clamp(S / 2 - R, MIN_DEPTH, MAX_DEPTH) x dampingFactor
Clamp(depth) ==
  IF IsNaN(depth) THEN NaN
  ELSE IF depth < state.minVertexDepth THEN state.minVertexDepth
  ELSE IF depth > state.maxVertexDepth THEN state.maxVertexDepth
  ELSE depth

UpdateRule(cell) ==
  FMul(Clamp(FSub(FHalf(Sum(drained.source, Neighbours(cell))),
                  Depth(drained.result[cell.tile], cell.index))),
       state.waveDampingFactor)

\* The cells of the subdivision the propagation loop is at.
SweptCells == {Cell(<<subRowIdx, subColIdx>>, vertex) : vertex \in 0..(vertexCount - 1)}

\* A step of the propagation loop of a 'ready' that is not a reset.
IsSweep == pc = "propagate" /\ ~state.resetRequested

(***************************************************************************)
(* C4.  A sweep writes to the result depth of each cell the clamped value  *)
(* of S / 2 - R times the damping factor, S being the total of the source  *)
(* depths its neighbours in the unified grid had when the drain finished   *)
(* and R the result depth the cell had then; every value it reads for a    *)
(* neighbour comes from a source buffer, and it writes nothing but the     *)
(* result depths of the cells it computes.                                 *)
(***************************************************************************)
C4_UpdateRule ==
  [][IsSweep =>
       /\ \A cell \in SweptCells : ResultDepth(cell)' = UpdateRule(cell)
       /\ \A read \in reads' :
            read.value = getZ(heap[state.sourcePositions[read.tile]], read.index)
       /\ \A id \in DOMAIN heap :
            \A k \in DOMAIN heap[id] :
               heap'[id][k] # heap[id][k] =>
                  /\ id = state.resultPositions[<<subRowIdx, subColIdx>>]
                  /\ k % 3 = 0]_vars

(***************************************************************************)
(* C5.  Tiles are stitched both ways: when two cells of different tiles    *)
(* are adjacent in the unified grid, the sweep of either reads the other,  *)
(* in the direction it lies in, and gets the depth the other's source      *)
(* buffer held when the drain finished.                                    *)
(***************************************************************************)
C5_ReciprocalStitching ==
  [][IsSweep =>
       \A cell \in SweptCells, direction \in Directions :
          \A other \in NeighbourAt(cell, direction) :
             other.tile # cell.tile =>
                \E read \in reads' :
                   /\ read.by = cell
                   /\ read.direction = direction
                   /\ Cell(read.tile, read.index) = other
                   /\ read.value = Depth(drained.source[other.tile], other.index)]_vars

\* The cell a read is made in.
Target(read) == Cell(read.tile, read.index)

(***************************************************************************)
(* C6.  Whatever the size of a tile, the sweep takes index div columns as  *)
(* the row of a vertex in its tile and index mod columns as its column,    *)
(* and the cell it reads as the left or right neighbour of a cell is the   *)
(* cell of the same row of the unified grid, one column to the left or to  *)
(* the right.                                                              *)
(***************************************************************************)
C6_RowMajorIndexing ==
  [][IsSweep =>
       /\ \A vertex \in 0..(vertexCount - 1) :
            /\ relativeRowIdx(vertex) = vertex \div state.columnsPerSubdivision
            /\ relativeColumnIdx(vertex) = vertex % state.columnsPerSubdivision
       /\ \A read \in reads' :
            read.direction \in {"left", "right"} =>
               /\ Target(read) \in Cells
               /\ GridRow(Target(read)) = GridRow(read.by)
               /\ GridColumn(Target(read)) =
                    GridColumn(read.by) + (IF read.direction = "left" THEN 0 - 1 ELSE 1)]_vars

(***************************************************************************)
(* C7.  The sweep reads, for a cell, only cells at distance 1 of it in the *)
(* unified grid; it reads nothing in a direction where the grid ends, and  *)
(* so makes fewer than 4 reads for a cell of the outer edge.               *)
(***************************************************************************)
C7_FreeBoundary ==
  [][IsSweep =>
       \A cell \in SweptCells :
          LET made == {read \in reads' : read.by = cell}
          IN  /\ \A read \in made : Target(read) \in Neighbours(cell)
              /\ \A read \in made : NeighbourAt(cell, read.direction) # {}
              /\ Cardinality(Neighbours(cell)) < 4 => Cardinality(made) < 4]_vars

\* The cells of the grid the pending pointer events are for.
PendingPushes ==
  {CellOf(state.pendingPointerEvents[i]) :
     i \in {j \in 1..Len(state.pendingPointerEvents) : InGrid(state.pendingPointerEvents[j])}}

(***************************************************************************)
(* C8.  When no reset is requested, the drain of a 'ready' leaves every    *)
(* cell a pending pointer event is for with its source depth at the        *)
(* minimum and its result depth at the maximum, and changes nothing else   *)
(* in any buffer.                                                          *)
(***************************************************************************)
C8_DrainWritesPushesOnly ==
  [][(IsDrain /\ ~state.resetRequested) =>
       /\ \A cell \in PendingPushes :
            /\ SourceDepth(cell)' = state.minVertexDepth
            /\ ResultDepth(cell)' = state.maxVertexDepth
       /\ \A cell \in Cells \ PendingPushes :
            /\ SourceDepth(cell)' = SourceDepth(cell)
            /\ ResultDepth(cell)' = ResultDepth(cell)
       /\ \A id \in DOMAIN heap :
            \A k \in DOMAIN heap[id] : k % 3 # 0 => heap'[id][k] = heap[id][k]]_vars

\* The 'ready' being handled found every cell at depth 0, the baseline, and
\* its drain applied one pointer event, for a cell of the grid.
OneKickOnStillWater ==
  /\ ~state.resetRequested
  /\ state.baseVertexDepth = 0
  /\ state.minVertexDepth = 0 - state.maxVertexDepth
  /\ Len(applied) = 1
  /\ InGrid(applied[1])
  /\ \A cell \in Cells :
       /\ Depth(before.source[cell.tile], cell.index) = 0
       /\ Depth(before.result[cell.tile], cell.index) = 0

(***************************************************************************)
(* C9.  When one pointer event is applied to a grid at rest at depth 0,    *)
(* the sweep that follows leaves every neighbour of its cell at a depth    *)
(* other than 0 and every cell at distance 2 or more at depth 0.           *)
(***************************************************************************)
C9_KickReachesNeighboursOnly ==
  (pc = "post" /\ OneKickOnStillWater) =>
     \A cell \in Cells :
        /\ Distance(cell, CellOf(applied[1])) = 1 => SourceDepth(cell) # 0
        /\ Distance(cell, CellOf(applied[1])) >= 2 => SourceDepth(cell) = 0

(***************************************************************************)
(* C10.  A 'ready' that follows a 'reset' ends with every cell of both     *)
(* buffers of every tile, and every depth of the message it posts, at the  *)
(* base depth; a further 'reset' before that 'ready' changes nothing.      *)
(***************************************************************************)
C10_ResetGivesBaseline ==
  [][/\ (pc = "post" /\ resetSeen) =>
          \A cell \in Cells :
             /\ SourceDepth(cell)' = state.baseVertexDepth
             /\ ResultDepth(cell)' = state.baseVertexDepth
             /\ PostedDepth(cell)' = state.baseVertexDepth
     /\ (pc = "idle" /\ pc' = "idle" /\ handled'.type = "reset" /\ resetSeen) =>
          /\ state' = state
          /\ heap' = heap]_vars

\* A 'ready' that follows a 'reset' has gone through a grid of which some
\* cell was not at the base depth.
C10_Witness ==
  /\ pc = "post"
  /\ resetSeen
  /\ \E cell \in Cells :
       \/ Depth(before.source[cell.tile], cell.index) # state.baseVertexDepth
       \/ Depth(before.result[cell.tile], cell.index) # state.baseVertexDepth

(***************************************************************************)
(* C11.  Once a 'reset' is received, no pointer event of the interval is   *)
(* pending, whether it came before or after the 'reset', and the drain of  *)
(* the 'ready' that closes the interval applies none and writes nothing;   *)
(* when no 'reset' was received, every pointer event of the interval is    *)
(* pending, so those that follow the 'ready' of a reset are taken again.   *)
(***************************************************************************)
C11_ResetSuppressesDisturbs ==
  [][/\ (pc' = "idle" /\ resetSeen') => state'.pendingPointerEvents = <<>>
     /\ (pc' = "idle" /\ ~resetSeen') => received' \subseteq Applied(state'.pendingPointerEvents)
     /\ (IsDrain /\ resetSeen) =>
          /\ applied' = <<>>
          /\ heap' = heap
          /\ state'.pendingPointerEvents = <<>>]_vars

\* A 'ready' has gone through its sweep after an interval in which both a
\* 'reset' and a pointer event were received.
C11_Witness ==
  /\ pc = "post"
  /\ resetSeen
  /\ received # {}
  /\ Cells # {}

\* The places an event has in the pending map.
Entries(pending, event) == {i \in 1..Len(pending) : pending[i] = event}

(***************************************************************************)
(* C12.  Between two 'ready' messages the pending map holds one entry for  *)
(* each pointer event received, no two entries are for the same            *)
(* (rowIndex, columnIndex, vertexIndex) and no entry stands for two, and   *)
(* setting the key of an event the interval had already changes nothing.   *)
(***************************************************************************)
C12_PendingDeduplicated ==
  [][pc' = "idle" =>
       /\ \A i, j \in 1..Len(state'.pendingPointerEvents) :
            i # j => state'.pendingPointerEvents[i] # state'.pendingPointerEvents[j]
       /\ ~resetSeen' =>
            \A data \in PointerMessages :
               PointerEvent(data) \in received' =>
                  /\ Cardinality(Entries(state'.pendingPointerEvents, PointerEvent(data))) = 1
                  /\ MapSet(state'.pendingPointerEvents, data) = state'.pendingPointerEvents]_vars

\* Two pointer events have come in an interval, and each has its entry.
C12_Witness ==
  /\ pc = "idle"
  /\ handled.type = "pointer"
  /\ ~resetSeen
  /\ Cells # {}
  /\ Cardinality(received) = 2
  /\ Len(state.pendingPointerEvents) = 2

(***************************************************************************)
(* C13.  A pending pointer event that names no cell of the grid changes no *)
(* cell of any buffer and stops no 'ready': the drain writes the cells the *)
(* pending events name and no other, the handler does not end by an error, *)
(* and the sweep follows.                                                  *)
(***************************************************************************)
C13_OutOfGridDisturbDiscarded ==
  [][(IsDrain /\ inits > 0) =>
       /\ ~handled'.threw
       /\ pc' # "idle"
       /\ \A cell \in Cells \ PendingPushes :
            /\ SourceDepth(cell)' = SourceDepth(cell)
            /\ ResultDepth(cell)' = ResultDepth(cell)]_vars

\* What the update rule yields for a vertex of the subdivision being swept.
Yielded(h, vertex) ==
  newZValue(adjacentTotal(h, NeighbourReads(subRowIdx, subColIdx, vertex)),
            getZ(h[state.resultPositions[<<subRowIdx, subColIdx>>]], vertex))

(***************************************************************************)
(* C14.  When the update rule yields not-a-number for a cell, the sweep    *)
(* stores the base depth for it: no result depth written by a sweep and no *)
(* depth of a posted message is not-a-number.                              *)
(***************************************************************************)
C14_NaNReplacedByBaseline ==
  [][/\ IsSweep =>
          \A vertex \in 0..(vertexCount - 1) :
             LET cell == Cell(<<subRowIdx, subColIdx>>, vertex)
             IN  /\ ~IsNaN(ResultDepth(cell)')
                 /\ IsNaN(Yielded(heap, vertex)) => ResultDepth(cell)' = state.baseVertexDepth
     /\ pc = "post" => \A cell \in Cells : ~IsNaN(PostedDepth(cell)')]_vars

\* The buffers of the grid and the arrays of a message have the size of a
\* subdivision.
SizedAsDeclared(arrays) ==
  \A tile \in DOMAIN arrays : Len(arrays[tile]) = 3 * vertexCount

BuffersOf(positions) == [tile \in Subdivisions |-> heap[positions[tile]]]

ArraysOf(sent) == [tile \in DOMAIN sent |-> sent[tile].array]

(***************************************************************************)
(* C15.  An 'init' whose template has not the size of the subdivision it   *)
(* declares is refused: no message leaves the worker with a buffer, for a  *)
(* subdivision of its grid, of another size than                           *)
(* 3 x rowsPerSubdivision x columnsPerSubdivision, and no array of another *)
(* size is posted.                                                         *)
(***************************************************************************)
C15_MismatchedInitRefused ==
  [][/\ SizedAsDeclared(BuffersOf(state.sourcePositions))'
     /\ SizedAsDeclared(BuffersOf(state.resultPositions))'
     /\ postCount' # postCount =>
          /\ SizedAsDeclared(ArraysOf(posted.vertexPositions))'
          /\ SizedAsDeclared(ArraysOf(posted.vertexColors))']_vars

(***************************************************************************)
(* C16.  A message of a type the worker does not know is logged and        *)
(* changes nothing else: the state object, the buffers, the pending map,   *)
(* the reset flag and the messages posted are what they were.              *)
(***************************************************************************)
C16_UnrecognizedIgnored ==
  [][(pc = "idle" /\ pc' = "idle" /\ handled'.type = "unrecognized") =>
       /\ console' # {}
       /\ console \subseteq console'
       /\ state' = state
       /\ heap' = heap
       /\ nextId' = nextId
       /\ posted' = posted
       /\ postCount' = postCount]_vars

\* A 'ready' has posted its result after a message of unknown type came in
\* an interval that also had a pointer event.
C16_Witness ==
  /\ console # {}
  /\ pc = "idle"
  /\ handled.type = "ready"
  /\ ~handled.threw
  /\ postCount = 2
  /\ Cells # {}

(***************************************************************************)
(* C17.  A 'ready' posted while the handler of an earlier one runs waits:  *)
(* a 'ready' is taken only when no handler runs and every earlier one has  *)
(* posted its result, a handler that runs takes nothing from the queue, a  *)
(* result is posted only when every cell has been computed and every tile  *)
(* swapped, and between handlers there are as many results as 'ready'      *)
(* messages taken.                                                         *)
(***************************************************************************)
C17_ReadyRunsToCompletion ==
  [][/\ frames' # frames =>
          /\ pc = "idle"
          /\ message = NoMessage
          /\ postCount = frames
     /\ pc # "idle" => Len(inbox') >= Len(inbox)
     /\ postCount' # postCount =>
          /\ computed = Cells
          /\ \A cell \in Cells : PostedDepth(cell)' = SourceDepth(cell)'
     /\ pc' = "idle" => postCount' = frames']_vars

\* A second 'ready' is in the queue while the sweep of the first is half done.
C17_Witness ==
  /\ pc = "propagate"
  /\ frames = 1
  /\ computed # {}
  /\ inbox # <<>>
  /\ state.pendingPointerEvents = <<>>
  /\ applied # <<>>

\* The 'ready' messages and results on their way: a 'ready' in the queue of
\* the worker or being handled, a result posted and not yet received, a
\* result received and not yet copied.
InFlight ==
  Len(inbox) + (IF pc = "idle" THEN 0 ELSE 1) + (postCount - consumer.received)
    + (IF consumer.lastWorkerResult = null THEN 0 ELSE 1)

(***************************************************************************)
(* C18.  WaterPlane keeps at most one frame in flight: it posts a 'ready'  *)
(* when it starts the worker and, afterwards, only in the frame callback   *)
(* that copies the result it holds and clears it, so the 'ready' messages  *)
(* sent are as many as the results copied, or one more, and at most one    *)
(* 'ready' or result is on its way.                                        *)
(***************************************************************************)
C18_OneFrameInFlight ==
  [][/\ consumer'.sent - consumer'.consumed \in {0, 1}
     /\ InFlight' <= 1
     /\ consumer'.sent # consumer.sent =>
          \/ consumer.sent = 0 /\ inits > 0
          \/ /\ consumer.lastWorkerResult # null
             /\ consumer'.lastWorkerResult = null
             /\ consumer'.consumed = consumer.consumed + 1]_vars

\* The first result has been copied and the sweep of the second 'ready' runs.
C18_Witness ==
  /\ consumer.consumed = 1
  /\ consumer.sent = 2
  /\ consumer.lastWorkerResult = null
  /\ pc = "propagate"
  /\ computed # {}

(***************************************************************************)
(* C19.  Every 'ready' handled after an 'init' is answered by one result:  *)
(* its handler does not end by an error, the handler that has started     *)
(* posts a message, one more than were posted before, and the message      *)
(* holds one position array and one colour array for each subdivision.     *)
(***************************************************************************)
C19_ReadyAnswered ==
  /\ [](inits > 0 => ~(handled.type = "ready" /\ handled.threw))
  /\ \A n \in 0..MaxSweeps :
       (pc # "idle" /\ postCount = n) ~> (pc = "idle" /\ postCount = n + 1)
  /\ [][postCount' # postCount =>
          /\ postCount' = postCount + 1
          /\ DOMAIN posted'.vertexPositions = Subdivisions
          /\ DOMAIN posted'.vertexColors = Subdivisions]_vars

\* The buffers the worker holds: the source and the result buffer of every
\* subdivision, and every array it can reach.
EngineBuffers ==
  {state.sourcePositions[tile] : tile \in DOMAIN state.sourcePositions}
    \cup {state.resultPositions[tile] : tile \in DOMAIN state.resultPositions}
    \cup DOMAIN heap

(***************************************************************************)
(* C20.  The arrays of a posted message belong to the consumer alone: no   *)
(* array ever posted is a source or a result buffer of the worker or an    *)
(* array the worker can still reach, so the worker neither reads nor       *)
(* writes it after the post; and the arrays of a message, one position and *)
(* one colour array per subdivision, are all different and none of them    *)
(* was in an earlier message.                                              *)
(***************************************************************************)
C20_SentBuffersOwnedByConsumer ==
  /\ [](transferred \cap EngineBuffers = {})
  /\ [][postCount' # postCount =>
          /\ TransferObjects(posted') \cap transferred = {}
          /\ Cardinality(TransferObjects(posted')) = 2 * Cardinality(Subdivisions)]_vars

\* Two messages were posted for a grid with subdivisions: the buffers have
\* been swapped twice and the second message went out.
C20_Witness ==
  /\ postCount >= 2
  /\ inits > 0
  /\ Cardinality(transferred) >= 4 * Cardinality(Subdivisions)
  /\ Subdivisions # {}

\* The buffers of the subdivisions of the grid.
GridBuffers ==
  {state.sourcePositions[tile] : tile \in Subdivisions}
    \cup {state.resultPositions[tile] : tile \in Subdivisions}

\* The message an 'init' just handled came with, told by what it configured.
Configured(data) ==
  /\ state.subdivisionRows = data.subdivisionRows
  /\ state.subdivisionColumns = data.subdivisionColumns
  /\ state.rowsPerSubdivision = data.rowsPerSubdivision
  /\ state.columnsPerSubdivision = data.columnsPerSubdivision
  /\ state.minVertexDepth = data.minVertexDepth
  /\ state.maxVertexDepth = data.maxVertexDepth
  /\ state.waveDampingFactor = data.waveDampingFactor

HoldTemplate(data) ==
  \A tile \in Subdivisions :
    /\ heap[state.sourcePositions[tile]] = data.vertexPositionTemplate
    /\ heap[state.resultPositions[tile]] = data.vertexPositionTemplate

\* What the sweep of a subdivision leaves alone: the buffers of the other
\* subdivisions and, when no reset is under way, its own source buffer.
OtherBuffers ==
  {state.sourcePositions[tile] : tile \in Subdivisions \ {<<subRowIdx, subColIdx>>}}
    \cup {state.resultPositions[tile] : tile \in Subdivisions \ {<<subRowIdx, subColIdx>>}}
    \cup (IF state.resetRequested THEN {} ELSE {state.sourcePositions[<<subRowIdx, subColIdx>>]})

(***************************************************************************)
(* C21.  After an 'init' the source and the result buffer of every         *)
(* subdivision hold the values of the template; the 2 x subdivisionRows x  *)
(* subdivisionColumns buffers of the grid are different arrays, none of    *)
(* them the template, at every time after; and the sweep of a subdivision  *)
(* that has changed depths has changed no other buffer.                    *)
(***************************************************************************)
C21_BuffersCopiedFromTemplate ==
  /\ [][inits' # inits => (\E data \in InitMessages : (Configured(data) /\ HoldTemplate(data))')]_vars
  /\ [](inits > 0 =>
          /\ Cardinality(GridBuffers) = 2 * Cardinality(Subdivisions)
          /\ TemplateBuffer \notin EngineBuffers)
  /\ [][pc = "propagate" /\ heap' # heap =>
          \A buffer \in OtherBuffers : heap'[buffer] = heap[buffer]]_vars

\* A sweep has changed the result buffer of a subdivision of a grid of
\* several subdivisions.
C21_Witness ==
  /\ inits > 0
  /\ pc = "build"
  /\ Cardinality(Subdivisions) > 1
  /\ \E tile \in Subdivisions :
       heap[state.resultPositions[tile]] # heap[state.sourcePositions[tile]]

\* (depth - MIN_DEPTH) / (MAX_DEPTH - MIN_DEPTH), for the configured depths.
Scale(depth) ==
  IF IsNaN(depth) \/ state.maxVertexDepth = state.minVertexDepth
  THEN NaN
  ELSE ((depth - state.minVertexDepth) * Unit) \div (state.maxVertexDepth - state.minVertexDepth)

\* Three numbers for a vertex at a depth, to ask for its colour.
VertexAt(depth) == <<0, 0, depth>>

Vertices(array) == 0..((Len(array) \div 3) - 1)

ColouredByScale(msg) ==
  \A tile \in DOMAIN msg.vertexPositions :
    LET positionArray == msg.vertexPositions[tile].array
        colours == msg.vertexColors[tile].array
    IN  \A vertex \in Vertices(positionArray) :
          /\ colours[(3 * vertex) + 1] = Scale(getZ(positionArray, vertex))
          /\ colours[(3 * vertex) + 2] = Scale(getZ(positionArray, vertex))
          /\ colours[(3 * vertex) + 3] = Unit

(***************************************************************************)
(* C22.  The colour of a cell is (s, s, 1) with                            *)
(* s = (depth - MIN_DEPTH) / (MAX_DEPTH - MIN_DEPTH): every cell of every  *)
(* posted message has this colour for its posted depth, with blue 1; the   *)
(* minimum depth gets s = 0, the maximum s = 1 and, when the bounds are    *)
(* symmetric, the base depth s = 0.5.                                      *)
(***************************************************************************)
C22_ColourScale ==
  /\ [][postCount' # postCount => ColouredByScale(posted)']_vars
  /\ [](inits > 0 =>
          /\ getScaledColor(VertexAt(state.minVertexDepth), 0) = 0
          /\ getScaledColor(VertexAt(state.maxVertexDepth), 0) = Unit
          /\ (state.minVertexDepth = 0 - state.maxVertexDepth =>
                getScaledColor(VertexAt(state.baseVertexDepth), 0) = Unit \div 2))

\* A message was posted with a cell away from the base depth, for symmetric
\* bounds.
C22_Witness ==
  /\ inits > 0
  /\ postCount > 0
  /\ state.minVertexDepth = 0 - state.maxVertexDepth
  /\ \E tile \in DOMAIN posted.vertexPositions :
       \E vertex \in Vertices(posted.vertexPositions[tile].array) :
         /\ ~IsNaN(getZ(posted.vertexPositions[tile].array, vertex))
         /\ getZ(posted.vertexPositions[tile].array, vertex) # state.baseVertexDepth
         /\ posted.vertexColors[tile].array[(3 * vertex) + 1] # Unit \div 2

InUnitInterval(scale) == ~IsNaN(scale) /\ 0 <= scale /\ scale <= Unit

\* Depths to ask the colour of: the bounds, the base, and depths outside.
ProbedDepths ==
  {state.minVertexDepth - Unit, state.minVertexDepth, state.baseVertexDepth,
   state.maxVertexDepth, state.maxVertexDepth + Unit}

ColoursInUnitInterval(msg) ==
  \A tile \in DOMAIN msg.vertexColors :
    LET colours == msg.vertexColors[tile].array
    IN  \A vertex \in Vertices(colours) :
          /\ InUnitInterval(colours[(3 * vertex) + 1])
          /\ InUnitInterval(colours[(3 * vertex) + 2])

(***************************************************************************)
(* C23.  The colour scale is clamped to [0, 1]: the red and green channel  *)
(* of every cell of every posted message lie in [0, 1], and so does the    *)
(* scale of every depth, a depth below the minimum or above the maximum    *)
(* included.                                                               *)
(***************************************************************************)
C23_ColourScaleClamped ==
  /\ [][postCount' # postCount => ColoursInUnitInterval(posted)']_vars
  /\ [](inits > 0 =>
          \A depth \in ProbedDepths : InUnitInterval(getScaledColor(VertexAt(depth), 0)))

\* Every cell is at the base depth, in both buffers.
AtBaseline ==
  \A cell \in Cells :
    /\ SourceDepth(cell) = state.baseVertexDepth
    /\ ResultDepth(cell) = state.baseVertexDepth

(***************************************************************************)
(* C24.  A reset asked for in the interface is signalled to the worker:    *)
(* once initiateReset has been called the worker gets a 'reset' message,   *)
(* and the next result it delivers has every cell at the base depth.  So   *)
(* when the worker takes the second 'ready' after the call (the first may  *)
(* have been posted before it), either the reset is requested or an        *)
(* earlier sweep has carried it out.                                       *)
(***************************************************************************)
C24_ResetSignalled ==
  [][(frames' # frames /\ store.lastResetTime > 0 /\ frames = store.lastResetTime)
       => (state.resetRequested \/ AtBaseline)]_vars

\* A depth of the tile in the source buffer: after a 'ready', what its sweep
\* has computed for the vertex.
SourceZ(vertex) == getZ(heap[state.sourcePositions[<<0, 0>>]], vertex)

\* A number of less than 16 times 2^-149 in magnitude, and how many times
\* 2^-149 it is.
Faint(x) == x.mag[1] < 2 ^ (Float32Quantum + 4) /\ \A i \in 2..Limbs : x.mag[i] = 0

Quanta(x) ==
  IF x.negative THEN 0 - (x.mag[1] \div (2 ^ Float32Quantum)) ELSE x.mag[1] \div (2 ^ Float32Quantum)

NearlyStill ==
  /\ Faint(state.baseVertexDepth)
  /\ \A vertex \in 0..(vertexCount - 1) : Faint(SourceZ(vertex))

\* The deviation of a vertex from the baseline, in multiples of 2^-149.
Deviation(vertex) == Quanta(SourceZ(vertex)) - Quanta(state.baseVertexDepth)

RECURSIVE SquaresUpTo(_)
SquaresUpTo(vertex) ==
  IF vertex < 0 THEN 0
  ELSE SquaresUpTo(vertex - 1) + (Deviation(vertex) * Deviation(vertex))

\* The sum of the squared deviations, in units of 2^-298.
Energy == SquaresUpTo(vertexCount - 1)

\* What the end of a sweep does to the energy of a surface that is nearly
\* still before and after.
EnergyKept == (pc = "build" /\ pc' = "idle" /\ NearlyStill /\ NearlyStill') => Energy' <= Energy

(***************************************************************************)
(* C25.  On a grid at the baseline that gets one Disturb and no other,     *)
(* there is a sweep after which the sum of the squared deviations from the *)
(* baseline never increases from one sweep to the next.  Stated for the    *)
(* sweeps of a surface whose deviations are all below 16 times 2^-149,     *)
(* which the property implies.                                             *)
(***************************************************************************)
C25_EnergyDecays == <>[][EnergyKept]_vars

(***************************************************************************)
(* C26.  Every completed 'ready' leaves the worker with no pending pointer *)
(* event and no reset requested, whether or not a reset was requested when *)
(* the 'ready' arrived.                                                    *)
(***************************************************************************)
C26_QueueClearedByEveryReady ==
  [][postCount' # postCount =>
       /\ state'.pendingPointerEvents = <<>>
       /\ state'.resetRequested = FALSE]_vars

\* A 'ready' that found a reset requested is about to post: the drain has
\* left no pending event, the reset is still requested.
C26_Witness ==
  /\ inits > 0
  /\ pc = "post"
  /\ resetSeen
  /\ state.resetRequested
  /\ state.pendingPointerEvents = <<>>
  /\ Cells # {}

(***************************************************************************)
(* C27.  Between two 'init' messages every subdivision keeps its two       *)
(* buffers and only their roles alternate: when a 'ready' is completed,    *)
(* one under a reset included, the source buffer of every subdivision is   *)
(* the one that was its result buffer when the 'ready' arrived, and the    *)
(* other way round; the source and the result buffer of a subdivision are  *)
(* never the same buffer; and no step other than an 'init' gives the grid  *)
(* another buffer or a buffer another length.                              *)
(***************************************************************************)
C27_BufferRolesAlternate ==
  /\ [][postCount' # postCount =>
          \A tile \in Subdivisions :
            /\ state'.sourcePositions[tile] = rolesBefore.result[tile]
            /\ state'.resultPositions[tile] = rolesBefore.source[tile]]_vars
  /\ [](\A tile \in Subdivisions : state.sourcePositions[tile] # state.resultPositions[tile])
  /\ [][inits' = inits =>
          /\ GridBuffers' = GridBuffers
          /\ \A buffer \in GridBuffers : Len(heap'[buffer]) = Len(heap[buffer])]_vars

\* A 'ready' under a reset is about to post: every subdivision has swapped
\* its buffers.
C27_Witness ==
  /\ pc = "post"
  /\ resetSeen
  /\ Subdivisions # {}
  /\ postCount >= 1
  /\ \A tile \in Subdivisions :
       /\ state.sourcePositions[tile] = rolesBefore.result[tile]
       /\ state.resultPositions[tile] = rolesBefore.source[tile]

\* The message holds, for every subdivision, the depths of its source buffer
\* and the colours of these depths.
SnapshotOfSource(msg) ==
  /\ DOMAIN msg.vertexPositions = Subdivisions
  /\ DOMAIN msg.vertexColors = Subdivisions
  /\ \A tile \in Subdivisions :
       /\ msg.vertexPositions[tile].array = heap[state.sourcePositions[tile]]
       /\ Len(msg.vertexColors[tile].array) = 3 * vertexCount
       /\ \A vertex \in 0..(vertexCount - 1) :
            LET scale == getScaledColor(msg.vertexPositions[tile].array, vertex)
            IN  /\ msg.vertexColors[tile].array[(3 * vertex) + 1] = scale
                /\ msg.vertexColors[tile].array[(3 * vertex) + 2] = scale

(***************************************************************************)
(* C28.  A posted message is a snapshot of one sweep: for every            *)
(* subdivision its depths are those of the source buffer as it stands      *)
(* after the swap of the same 'ready', every colour is computed from the   *)
(* depth the message has for the same vertex, and the message is built     *)
(* when the sweep has computed every cell, no depth changing while it is   *)
(* built and posted.                                                       *)
(***************************************************************************)
C28_ResultIsSnapshotOfOneSweep ==
  /\ [][postCount' # postCount => SnapshotOfSource(posted)']_vars
  /\ [][(pc = "build" \/ pc = "post") => (Cells \subseteq computed /\ heap' = heap)]_vars

\* A message was posted whose depths are not those of the frame before.
C28_Witness ==
  /\ inits > 0
  /\ postCount > 0
  /\ handled = Handled("ready", FALSE)
  /\ Cardinality(Subdivisions) > 1
  /\ \E tile \in Subdivisions :
       /\ posted.vertexPositions[tile].array = heap[state.sourcePositions[tile]]
       /\ posted.vertexPositions[tile].array # heap[state.resultPositions[tile]]

\* A step that handles a 'pointer' or a 'reset' message: no handler is under
\* way before or after it, and it handles neither a 'ready' nor an 'init'.
PointerOrResetHandled ==
  /\ pc = "idle"
  /\ pc' = "idle"
  /\ frames' = frames
  /\ inits' = inits
  /\ handled'.type \in {"pointer", "reset"}

\* The state object but for the pending events and the reset flag.
Configuration(s) == [s EXCEPT !.pendingPointerEvents = <<>>, !.resetRequested = FALSE]

(***************************************************************************)
(* C29.  A 'pointer' or a 'reset' message by itself changes no depth:      *)
(* handling a 'pointer' changes nothing but the pending pointer events,    *)
(* handling a 'reset' nothing but the reset flag and the pending pointer   *)
(* events; every buffer keeps its contents and nothing is posted.          *)
(***************************************************************************)
C29_DisturbAndResetChangeNoDepth ==
  [][PointerOrResetHandled =>
       /\ heap' = heap
       /\ posted' = posted
       /\ postCount' = postCount
       /\ Configuration(state') = Configuration(state)
       /\ (handled'.type = "pointer" => state'.resetRequested = state.resetRequested)]_vars

\* A 'reset' has been handled and the result buffer of a cell is still away
\* from the base depth.
C29_Witness ==
  /\ inits > 0
  /\ pc = "idle"
  /\ handled.type = "reset"
  /\ state.resetRequested
  /\ \E cell \in Cells :
       Depth(heap[state.resultPositions[cell.tile]], cell.index) # state.baseVertexDepth

\* The sequences that list every element of a set once.
Orderings(S) ==
  {order \in [1..Cardinality(S) -> S] :
     \A i, j \in 1..Cardinality(S) : i # j => order[i] # order[j]}

\* Orders to visit the vertices of a subdivision in: upwards, downwards, and
\* the even vertices before the odd ones.
VertexOrders ==
  LET n == vertexCount
      evens == (n + 1) \div 2
  IN  {[i \in 1..n |-> i - 1],
       [i \in 1..n |-> n - i],
       [i \in 1..n |-> IF i <= evens THEN 2 * (i - 1) ELSE (2 * (i - evens)) - 1]}

\* Orders to visit the cells of the grid in: subdivision after subdivision,
\* or vertex after vertex through all subdivisions.
SweepOrders ==
  IF vertexCount <= 0 THEN {<<>>}
  ELSE LET n == vertexCount
           m == Cardinality(Subdivisions)
       IN  UNION {{[k \in 1..(m * n) |->
                      Cell(tiles[((k - 1) \div n) + 1], vertices[((k - 1) % n) + 1])],
                   [k \in 1..(m * n) |->
                      Cell(tiles[((k - 1) % m) + 1], vertices[((k - 1) \div m) + 1])]} :
                  tiles \in Orderings(Subdivisions), vertices \in VertexOrders}

RECURSIVE SweepInOrder(_, _)
\* The propagation of every cell, in an order.
SweepInOrder(h, order) ==
  IF order = <<>>
  THEN h
  ELSE SweepInOrder(PropagateVertex(h, Head(order).tile[1], Head(order).tile[2], Head(order).index),
                    Tail(order))

\* The buffers as the drain of the 'ready' under way left them.
DrainedHeap ==
  [buffer \in DOMAIN heap |->
     IF \E tile \in Subdivisions : state.sourcePositions[tile] = buffer
     THEN drained.source[CHOOSE tile \in Subdivisions : state.sourcePositions[tile] = buffer]
     ELSE IF \E tile \in Subdivisions : state.resultPositions[tile] = buffer
          THEN drained.result[CHOOSE tile \in Subdivisions : state.resultPositions[tile] = buffer]
          ELSE heap[buffer]]

\* The propagation loops have ended and the message loop has not begun.
SweepDone == pc = "build" /\ message = NoMessage /\ Cells \subseteq computed

\* The pending events in every order they can have arrived in.
ArrivalOrders ==
  LET pending == state.pendingPointerEvents
  IN  {[i \in 1..Len(pending) |-> pending[order[i]]] : order \in Orderings(1..Len(pending))}

DrainOf(events) ==
  IF state.resetRequested = FALSE
  THEN DrainEvents(events, heap, <<>>)
  ELSE [heap |-> heap, applied |-> <<>>, threw |-> FALSE]

(***************************************************************************)
(* C30.  The outcome of a sweep does not depend on the order of the visits *)
(* or of the arrivals: when the propagation loops have ended, the buffers  *)
(* are what the propagation of the cells in any other order gives from the *)
(* buffers the drain left; and the drain of the pending pointer events     *)
(* gives the same buffers, and fails or not alike, in every order the      *)
(* events can have arrived in.                                             *)
(***************************************************************************)
C30_OrderIndependent ==
  /\ SweepDone => \A order \in SweepOrders : SweepInOrder(DrainedHeap, order) = heap
  /\ pc = "idle" =>
       \A events \in ArrivalOrders :
         /\ DrainOf(events).heap = Drain.heap
         /\ DrainOf(events).threw = Drain.threw


\* The bounds are symmetric, every cell of both buffers is at the base depth
\* and no pointer event is pending.
Quiescent ==
  /\ inits > 0
  /\ state.minVertexDepth = 0 - state.maxVertexDepth
  /\ state.pendingPointerEvents = <<>>
  /\ AtBaseline

\* A step of the handler of a 'ready'.
IsReadyStep == frames' # frames \/ pc # "idle"

PostedAtBaseline(msg) ==
  \A tile \in DOMAIN msg.vertexPositions :
    \A vertex \in Vertices(msg.vertexPositions[tile].array) :
      getZ(msg.vertexPositions[tile].array, vertex) = state.baseVertexDepth

(***************************************************************************)
(* C31.  A grid at rest stays at rest: with symmetric bounds, when every   *)
(* cell of both buffers is at the base depth and no pointer event is       *)
(* pending, every step of the handler of a 'ready' leaves every cell of    *)
(* both buffers at the base depth, and the message it posts has every cell *)
(* at the base depth.                                                      *)
(***************************************************************************)
C31_QuiescentIsFixedPoint ==
  [][(Quiescent /\ IsReadyStep) =>
       /\ AtBaseline'
       /\ (postCount' # postCount => PostedAtBaseline(posted)')]_vars


\* The x and y components of a position array.
XY(array) == [k \in {i \in 1..Len(array) : (i - 1) % 3 # 2} |-> array[k]]

\* Every buffer of the one heap is in the other, with the same x and y.
KeepsXY(old, new) ==
  \A id \in DOMAIN old : id \in DOMAIN new /\ XY(new[id]) = XY(old[id])

\* The position arrays of a message have the x and y of the template of the
\* configured subdivision.
PostedXYOfTemplate(msg) ==
  \A tile \in DOMAIN msg.vertexPositions :
    XY(msg.vertexPositions[tile].array)
      = XY(PlaneTemplate(state.rowsPerSubdivision, state.columnsPerSubdivision, 0))

(***************************************************************************)
(* C32.  Only depths change: no step but the handling of an 'init' changes *)
(* the x or y component of a vertex in a buffer of the worker, and the     *)
(* position arrays of every posted message have the x and y components of  *)
(* the template of the 'init'.                                             *)
(***************************************************************************)
C32_OnlyDepthsChange ==
  /\ [][inits' = inits => KeepsXY(heap, heap')]_vars
  /\ [][postCount' # postCount => PostedXYOfTemplate(posted)']_vars

\* A message was posted in which a cell is away from the depth of the
\* template, after a pointer event was applied.
C32_Witness ==
  /\ postCount > 0
  /\ pc = "idle"
  /\ state.baseVertexDepth = 0
  /\ \E cell \in Cells :
       /\ cell.tile \in DOMAIN posted.vertexPositions
       /\ ~IsNaN(PostedDepth(cell))
       /\ PostedDepth(cell) # 0


\* The buffers of the grid with the template of an 'init' message in each.
TemplateHeap(data) ==
  [buffer \in DOMAIN heap |->
     IF buffer \in GridBuffers THEN data.vertexPositionTemplate ELSE heap[buffer]]

\* The 'ready' under way is the first message after an 'init'.
FirstAfterInit == handled.type = "init"

(***************************************************************************)
(* C33.  An 'init' starts from a clean queue: when it has been handled no  *)
(* pointer event is pending and no reset is requested, whatever was        *)
(* received before it; the 'ready' that follows it at once applies no      *)
(* event, does not fail and is no reset, and when its propagation loops    *)
(* have ended the buffers are what the propagation of every cell gives     *)
(* from the template.                                                      *)
(***************************************************************************)
C33_InitStartsClean ==
  /\ [][inits' # inits =>
          /\ state'.pendingPointerEvents = <<>>
          /\ state'.resetRequested = FALSE]_vars
  /\ [][(IsDrain /\ FirstAfterInit) =>
          /\ ~state.resetRequested
          /\ applied' = <<>>
          /\ pc' # "idle"
          /\ heap' = heap
          /\ \E data \in InitMessages : Configured(data) /\ HoldTemplate(data)]_vars
  /\ []((SweepDone /\ FirstAfterInit) =>
          \E data \in InitMessages :
            /\ Configured(data)
            /\ heap = SweepInOrder(TemplateHeap(data), CHOOSE order \in SweepOrders : TRUE))

\* The first message is posted after an 'init' that came after a 'ready'
\* that failed: a pointer event was pending when the 'init' arrived.
C33_Witness ==
  /\ pc = "post"
  /\ FirstAfterInit
  /\ frames = 2
  /\ postCount = 0
  /\ Cells # {}


(***************************************************************************)
(* C34.  Every 'pointer' message WaterPlane posts, for the pointer or for  *)
(* rain, names a subdivision of the grid and a vertex of a subdivision:    *)
(* 0 <= rowIndex < SUBDIVISION_ROWS, 0 <= columnIndex <                    *)
(* SUBDIVISION_COLUMNS, 0 <= vertexIndex < VERTEX_COUNT; and the three     *)
(* refs of the pointer are all -1 or none of them is negative.             *)
(***************************************************************************)
NamesVertexOfGrid(data) ==
  /\ data.rowIndex \in 0..(SUBDIVISION_ROWS - 1)
  /\ data.columnIndex \in 0..(SUBDIVISION_COLUMNS - 1)
  /\ data.vertexIndex \in 0..(VERTEX_COUNT - 1)

PointerRefs(refs) ==
  {refs.pointerSubdivisionRowIndex, refs.pointerSubdivisionColumnIndex, refs.pointerVertexIndex}

C34_PointerMessagesInGrid ==
  /\ \A k \in 1..Len(inbox) : inbox[k].type = "pointer" => NamesVertexOfGrid(inbox[k])
  /\ \/ PointerRefs(consumer) = {-1}
     \/ \A index \in PointerRefs(consumer) : index >= 0

\* A frame has posted a message for the pointer and one for rain, the rain
\* on the last vertex of the last row of subdivisions.
C34_Witness ==
  /\ Len(inbox) >= 2
  /\ consumer.from[1] = "touch"
  /\ consumer.from[2] = "rain"
  /\ inbox[1].rowIndex = consumer.pointerSubdivisionRowIndex
  /\ inbox[2].rowIndex = SUBDIVISION_ROWS - 1
  /\ inbox[2].vertexIndex = VERTEX_COUNT - 1


(***************************************************************************)
(* C35.  Disturbances of the pointer last only while it is pressed on the  *)
(* plane: once a pointer event has come with the primary button up,        *)
(* WaterPlane posts no message for the pointer until an event with the     *)
(* button down hits a subdivision; while a vertex is held, two messages    *)
(* for the pointer are more than POINTER_DEBOUNCE_SECONDS (1/30 s) apart;  *)
(* and a message for rain is posted only while rainFrequencySeconds of the *)
(* store is above 0.                                                       *)
(***************************************************************************)
IsFrame == consumer'.elapsedTime # consumer.elapsedTime

Posts(refs, what) == \E k \in 1..Len(refs.from) : refs.from[k] = what

TouchSent == IsFrame /\ Posts(consumer, "touch")'

RainSent == IsFrame /\ Posts(consumer, "rain")'

C35_TouchOnlyWhileLive ==
  /\ [][TouchSent => ~consumer.released]_vars
  /\ [][(TouchSent /\ consumer.touchedAt >= 0) =>
          consumer'.elapsedTime - consumer.touchedAt > POINTER_DEBOUNCE_SECONDS]_vars
  /\ [][RainSent => store.rainFrequencySeconds > 0]_vars

\* A vertex is held, the last message for it was posted one debounce
\* interval ago, and the frame of now has posted for rain only.
C35_Witness ==
  /\ ~consumer.released
  /\ consumer.pointerVertexIndex > -1
  /\ consumer.touchedAt >= 0
  /\ consumer.elapsedTime = consumer.touchedAt + POINTER_DEBOUNCE_SECONDS
  /\ consumer.from = <<"rain">>


(***************************************************************************)
(* C36.  Whatever calls of setRainStage and cycleRainStage the store has   *)
(* had, rainFrequencyStageIndex is in 0..4 and rainFrequencySeconds is the *)
(* entry of rainFrequencyStages at that index; setRainStage with an index  *)
(* outside 0..4 leaves the state as it is; cycleRainStage takes the index  *)
(* from 0 to 4, 3, 2, 1 and 0, so that five calls give the stage back.     *)
(***************************************************************************)
RECURSIVE Cycled(_, _)
\* The store after so many calls of cycleRainStage.
Cycled(s, calls) == IF calls = 0 THEN s ELSE cycleRainStage(Cycled(s, calls - 1))

C36_RainStageKept ==
  /\ store.rainFrequencyStageIndex \in 0..4
  /\ store.rainFrequencySeconds = rainFrequencyStages[store.rainFrequencyStageIndex + 1]
  /\ \A newStageIndex \in StageIndices \ (0..4) : setRainStage(store, newStageIndex) = store
  /\ Cycled(store, 5) = store
  /\ store.rainFrequencyStageIndex = 0 =>
       [calls \in 1..5 |-> Cycled(store, calls).rainFrequencyStageIndex] = <<4, 3, 2, 1, 0>>

\* The store is at the stage of one second, and so is the ref of WaterPlane.
C36_Witness ==
  /\ store.rainFrequencyStageIndex = 3
  /\ store.rainFrequencySeconds = Second
  /\ consumer.rainFrequencySeconds = Second


(***************************************************************************)
(* C37.  The damping factor of the 'init' message WaterPlane posts is      *)
(* (N/2 - 1)/(N/2) for N = SUBDIVISION_ROWS x VERTEX_ROWS, the rows of the *)
(* whole grid: 383/384 for 6 x 128, above 0 and below 1, also as a double. *)
(* The worker keeps the factor an 'init' brought until the next 'init',    *)
(* and every sweep multiplies each clamped depth by that factor.           *)
(***************************************************************************)
\* The grid and the depths of the state are those of an 'init' message.
ReceivedIn(data) ==
  /\ state.subdivisionRows = data.subdivisionRows
  /\ state.subdivisionColumns = data.subdivisionColumns
  /\ state.rowsPerSubdivision = data.rowsPerSubdivision
  /\ state.columnsPerSubdivision = data.columnsPerSubdivision
  /\ state.minVertexDepth = data.minVertexDepth
  /\ state.maxVertexDepth = data.maxVertexDepth

\* The value the read a cell made in one direction returned, 0 if it made none.
ReadIn(log, cell, direction) ==
  IF \E read \in log : read.by = cell /\ read.direction = direction
  THEN (CHOOSE read \in log : read.by = cell /\ read.direction = direction).value
  ELSE 0

\* The total of the values the reads of a cell returned.
ReadTotal(log, cell) ==
  FAdd(FAdd(ReadIn(log, cell, "above"), ReadIn(log, cell, "below")),
       FAdd(ReadIn(log, cell, "left"), ReadIn(log, cell, "right")))

\* What the sweep has to store for a cell when the factor is damping.
DampedBy(damping, log, cell) ==
  FMul(Clamp(FSub(FHalf(ReadTotal(log, cell)),
                  Depth(drained.result[cell.tile], cell.index))),
       damping)

\* The cells of the subdivision the loop has gone through last.
LastSwept == {cell \in Cells : \E read \in reads : read.by.tile = cell.tile}

StoredDamped ==
  \A data \in InitMessages :
    ReceivedIn(data) =>
      \A cell \in LastSwept :
        ResultDepth(cell) = DampedBy(data.waveDampingFactor, reads, cell)

\* The factor of the state is the one of the 'init' message it was configured by.
KeepsReceived ==
  \A data \in InitMessages :
    ReceivedIn(data) => state.waveDampingFactor = data.waveDampingFactor

====
